---- MODULE Spec2Model ----
(***************************************************************************)
(* Query orchestration pipeline of the agentic RAG service:                *)
(*   QueryDecomposer.decomposeQuery  -> SubAgentExecutor.executeSubQueries *)
(*   -> ResultAggregator.aggregateResults, composed by                     *)
(*   MasterAgent.processQuery.                                             *)
(*                                                                         *)
(* Numbers with a fractional part (confidences) are kept in hundredths:    *)
(* 50 stands for 0.5.  Message texts are rendered in ASCII.                *)
(***************************************************************************)
EXTENDS Integers, Sequences, FiniteSets, TLC

(***************************************************************************)
(* Bounds of the model.                                                    *)
(***************************************************************************)
\* longest sub-query list the decomposition oracle emits / the executor gets
MaxSubQueries == 2
\* last reading of the wall clock (Date.now()) during one execution
MaxTime == 1

(***************************************************************************)
(* Values.                                                                 *)
(***************************************************************************)
\* JavaScript `undefined` in a field that holds a string otherwise
Undefined == "<undefined>"

\* A JSON value that is not a string (the number 42) in a text field.
NonStringText == "<number 42>"

\* Texts of user queries and of sub-queries.
QueryTexts == {"compute 12 * 8", "please compute", "PPI and Beijing weather"}

\* The texts processQuery is called with.
UserQueries == {"compute 12 * 8", "PPI and Beijing weather"}

IsString(text) == text # NonStringText

\* The texts handleMathCalculation is called with: without a number, with
\* one, two and three numbers, with a multiplication sign, an addition
\* sign, both and neither.
MathTexts ==
  {"please compute", "compute 12", "compute 12 * 8", "add 3 + 4", "3 + 4 * 5",
   "4 * 5 + 3", "7 and 6"}

\* The matches of /\d+(\.\d+)?/g in a text, in order of appearance.
NumericTokens(text) ==
  CASE text = "compute 12 * 8" -> <<12, 8>>
    [] text = "please compute" -> << >>
    [] text = "PPI and Beijing weather" -> << >>
    [] text = "compute 12" -> <<12>>
    [] text = "add 3 + 4" -> <<3, 4>>
    [] text = "3 + 4 * 5" -> <<3, 4, 5>>
    [] text = "4 * 5 + 3" -> <<4, 5, 3>>
    [] text = "7 and 6" -> <<7, 6>>
    [] OTHER -> << >>

\* lowerQuery.includes('乘') || lowerQuery.includes('×') || lowerQuery.includes('*')
HasMultiplicationMarker(text) == text \in {"compute 12 * 8", "3 + 4 * 5", "4 * 5 + 3"}

\* lowerQuery.includes('加') || lowerQuery.includes('+')
HasAdditionMarker(text) == text \in {"add 3 + 4", "3 + 4 * 5", "4 * 5 + 3"}

QueryTypes == {"knowledge_query", "math_calculation", "weather_query"}

\* The `type` values the oracle may write: the three supported ones, one it
\* invented, and a missing field ("" is falsy, like undefined).
OracleTypes == QueryTypes \cup {"image_query", ""}

(***************************************************************************)
(* QueryDecomposer                                                         *)
(***************************************************************************)
\* The entries of "subQueries" in the oracle's JSON.  A missing field is the
\* falsy value of its type ("" or 0): the parser reads fields with `||`.
ParsedSubQueries ==
  [id : {""}, query : QueryTexts \cup {NonStringText, ""},
   type : OracleTypes, priority : 0..2, confidence : {0, 20, 50, 80}]

\* Entries used in the pipeline: those whose handling differs downstream,
\* at priorities 1 and 2 and with confidences 0.8, 0.2 and 0.5 (the mean of
\* any two or three of them is a whole number of hundredths).
PipelineSubQueries ==
  {sq \in ParsedSubQueries :
     \/ /\ sq.type = "knowledge_query" /\ sq.confidence = 80
        /\ \/ sq.query = "PPI and Beijing weather" /\ sq.priority = 1
           \/ sq.query = NonStringText /\ sq.priority = 2
     \/ /\ sq.type = "math_calculation" /\ sq.confidence = 20
        /\ \/ sq.query = "please compute" /\ sq.priority = 1
           \/ sq.query = "compute 12 * 8" /\ sq.priority = 2
     \/ /\ sq.type = "weather_query" /\ sq.confidence = 50
        /\ sq.query = "PPI and Beijing weather" /\ sq.priority = 1
     \/ /\ sq.type = "image_query" /\ sq.confidence = 80
        /\ sq.query = "please compute" /\ sq.priority = 2}

\* Sequences over S of length at most n.
SeqUpTo(S, n) == UNION {[1..k -> S] : k \in 0..n}

\* What Settings.llm.complete and the JSON extraction can yield for the
\* decomposition prompt.
\* "call_failed": complete() rejected; "no_json": no {...} in the text;
\* "invalid_json": JSON.parse threw; "not_an_array": subQueries missing or no
\* array; "object": a JSON object, hasMultipleIntents possibly undefined.
DecompositionReplies ==
  {[kind |-> k, hasMultipleIntents |-> "undefined", subQueries |-> << >>] :
      k \in {"call_failed", "no_json", "invalid_json", "not_an_array"}}
  \cup
  {[kind |-> "object", hasMultipleIntents |-> "undefined", subQueries |-> s] :
      s \in SeqUpTo(PipelineSubQueries, 1)}
  \cup
  {[kind |-> "object", hasMultipleIntents |-> h, subQueries |-> s] :
      h \in {"true", "false"}, s \in SeqUpTo(PipelineSubQueries, MaxSubQueries)}

\* Array.prototype.sort by ascending priority (stable): insertion of each
\* element after the last one whose priority is not greater.
\* Mutant of InsertByPriority: an element goes before those of its own
\* priority (a sort that is not stable).
RECURSIVE InsertBeforeEqual(_, _)
InsertBeforeEqual(sorted, e) ==
  IF sorted = << >> THEN <<e>>
  ELSE IF sorted[Len(sorted)].priority < e.priority THEN Append(sorted, e)
  ELSE Append(InsertBeforeEqual(SubSeq(sorted, 1, Len(sorted) - 1), e), sorted[Len(sorted)])

RECURSIVE InsertByPriority(_, _)
InsertByPriority(sorted, e) ==
  IF sorted = << >> THEN <<e>>
  ELSE IF sorted[Len(sorted)].priority <= e.priority THEN Append(sorted, e)
  ELSE Append(InsertByPriority(SubSeq(sorted, 1, Len(sorted) - 1), e), sorted[Len(sorted)])

RECURSIVE SortByPriority(_)
SortByPriority(s) ==
  IF s = << >> THEN << >>
  ELSE InsertByPriority(SortByPriority(SubSeq(s, 1, Len(s) - 1)), s[Len(s)])

Min(a, b) == IF a <= b THEN a ELSE b
Max(a, b) == IF a >= b THEN a ELSE b

\* The id given to an entry without one: `sub-${Date.now()}-${index}`.
SyntheticId(time, index) == "sub-" \o ToString(time) \o "-" \o ToString(index)

\* One element of parsed.subQueries.map(...): defaults for falsy fields.
MakeSubQuery(sq, index, originalQuery, time) ==
  [id         |-> IF sq.id # "" THEN sq.id ELSE SyntheticId(time, index - 1),
   query      |-> IF sq.query # "" THEN sq.query ELSE originalQuery,
   type       |-> IF sq.type # "" THEN sq.type ELSE "knowledge_query",
   priority   |-> IF sq.priority # 0 THEN sq.priority ELSE index,
   confidence |-> Max(0, Min(100, IF sq.confidence # 0 THEN sq.confidence ELSE 80)),
   reasoning  |-> "sub-query " \o ToString(index)]

\* Mutant of FallbackDecomposition: no sub-query at all.
FallbackDecompositionEmpty(originalQuery, why) ==
  [originalQuery |-> originalQuery, subQueries |-> << >>, hasMultipleIntents |-> FALSE,
   reasoning |-> why]

\* The degraded single-query decomposition, of decomposeQuery's catch and
\* of parseDecompositionResult's catch.
FallbackDecomposition(originalQuery, why) ==
  [originalQuery      |-> originalQuery,
   subQueries         |-> <<[id |-> "fallback-1", query |-> originalQuery,
                             type |-> "knowledge_query", priority |-> 1,
                             confidence |-> 50,
                             reasoning |-> "decomposition failed, handled as one knowledge query"]>>,
   hasMultipleIntents |-> FALSE,
   reasoning          |-> why]

\* parseDecompositionResult on the text of a reply.
ParseDecompositionResult(reply, originalQuery, time) ==
  IF reply.kind = "no_json"
    THEN FallbackDecomposition(originalQuery, "parse failed: no JSON found in the reply")
  ELSE IF reply.kind = "invalid_json"
    THEN FallbackDecomposition(originalQuery, "parse failed: JSON.parse error")
  ELSE IF reply.kind = "not_an_array" \/ reply.hasMultipleIntents = "undefined"
    THEN FallbackDecomposition(originalQuery, "parse failed: required fields missing")
  ELSE [originalQuery      |-> originalQuery,
        subQueries         |-> SortByPriority(
                                 [i \in 1..Len(reply.subQueries) |->
                                    MakeSubQuery(reply.subQueries[i], i, originalQuery, time)]),
        hasMultipleIntents |-> (reply.hasMultipleIntents = "true"),
        reasoning          |-> "decomposition done"]

\* decomposeQuery once the oracle call has returned or failed.
DecomposeQuery(reply, originalQuery, time) ==
  IF reply.kind = "call_failed"
    THEN FallbackDecomposition(originalQuery, "decomposition service failed, degraded")
    ELSE ParseDecompositionResult(reply, originalQuery, time)

(***************************************************************************)
(* Handlers of SubAgentExecutor and the services they call                 *)
(***************************************************************************)
\* The reply of the service a handler calls.  "none": the handler calls no
\* service (calculation, unsupported type).
NoReply == [kind |-> "none", text |-> ""]

\* queryEngine.query(...).toString(), or the error getIndex / query raises.
KnowledgeReplies ==
  {[kind |-> "answer", text |-> "PPI: N/A"],
   [kind |-> "answer", text |-> ""],
   [kind |-> "error", text |-> "connection refused"]}

\* weatherService.getWeather(city): a report, or one of its errors.
WeatherReplies ==
  {[kind |-> "answer", text |-> "Beijing: 18C, light rain"],
   [kind |-> "error", text |-> "city not found"]}

ServiceReplies(subQuery) ==
  IF ~IsString(subQuery.query) THEN {NoReply}
  ELSE IF subQuery.type = "knowledge_query" THEN KnowledgeReplies
  ELSE IF subQuery.type = "weather_query" THEN WeatherReplies
  ELSE {NoReply}

\* What a handler does: it returns a string or throws an Error with a
\* message.  `cause` names the failure underneath, if any.
Returned(text, cause) == [threw |-> FALSE, value |-> text, cause |-> cause]
Threw(message, cause) == [threw |-> TRUE, value |-> message, cause |-> cause]
NoOutcome == [threw |-> FALSE, value |-> Undefined, cause |-> "pending"]

\* Mutant of ExecuteQuery: the retrieval error is thrown on.
ExecuteQueryRethrows(reply) ==
  IF reply.kind = "error"
    THEN [threw |-> TRUE, value |-> "query failed: " \o reply.text, cause |-> "RetrievalFailed"]
    ELSE [threw |-> FALSE, value |-> reply.text, cause |-> "none"]

\* RouterEngine.executeQuery: a retrieval error becomes the returned text.
ExecuteQuery(reply) ==
  IF reply.kind = "error"
    THEN Returned("query failed: " \o reply.text, "RetrievalFailed")
    ELSE Returned(reply.text, "none")

\* handleKnowledgeQuery: routeQuery(query).response; selectBestDataset
\* starts with query.toLowerCase().
HandleKnowledgeQuery(query, reply) ==
  IF ~IsString(query)
    THEN Threw("knowledge query failed: query.toLowerCase is not a function", "Unexpected")
    ELSE ExecuteQuery(reply)

SumNumbers(a, b) == a + b
MultiplyNumbers(a, b) == a * b

\* Mutant of HandleMathCalculation: a single number is multiplied by 1.
HandleMathCalculationLenient(query) ==
  IF ~IsString(query)
    THEN Threw("math calculation failed: query.match is not a function", "Unexpected")
  ELSE IF Len(NumericTokens(query)) < 1
    THEN Threw("math calculation failed: not enough numbers in the query", "InsufficientOperands")
  ELSE LET a == NumericTokens(query)[1]
           b == IF Len(NumericTokens(query)) < 2 THEN 1 ELSE NumericTokens(query)[2]
       IN Returned("result: " \o ToString(a) \o " x " \o ToString(b) \o " = "
                     \o ToString(MultiplyNumbers(a, b)), "none")

\* Mutant of HandleMathCalculation: the addition sign is looked for first.
HandleMathCalculationAdditionFirst(query) ==
  IF ~IsString(query)
    THEN Threw("math calculation failed: query.match is not a function", "Unexpected")
  ELSE IF Len(NumericTokens(query)) < 2
    THEN Threw("math calculation failed: not enough numbers in the query", "InsufficientOperands")
  ELSE LET a == NumericTokens(query)[1]
           b == NumericTokens(query)[2]
       IN IF HasAdditionMarker(query)
            THEN Returned("result: " \o ToString(a) \o " + " \o ToString(b) \o " = "
                            \o ToString(SumNumbers(a, b)), "none")
            ELSE Returned("result: " \o ToString(a) \o " x " \o ToString(b) \o " = "
                            \o ToString(MultiplyNumbers(a, b)), "none")

\* handleMathCalculation: the first two numbers of the text, multiplied
\* when the text has a multiplication sign, added when it has an addition
\* sign only, multiplied otherwise.
HandleMathCalculation(query) ==
  IF ~IsString(query)
    THEN Threw("math calculation failed: query.match is not a function", "Unexpected")
  ELSE IF Len(NumericTokens(query)) < 2
    THEN Threw("math calculation failed: not enough numbers in the query", "InsufficientOperands")
  ELSE LET a == NumericTokens(query)[1]
           b == NumericTokens(query)[2]
       IN IF HasMultiplicationMarker(query)
            THEN Returned("result: " \o ToString(a) \o " x " \o ToString(b) \o " = "
                            \o ToString(MultiplyNumbers(a, b)), "none")
          ELSE IF HasAdditionMarker(query)
            THEN Returned("result: " \o ToString(a) \o " + " \o ToString(b) \o " = "
                            \o ToString(SumNumbers(a, b)), "none")
          ELSE Returned("result: " \o ToString(a) \o " x " \o ToString(b) \o " = "
                          \o ToString(MultiplyNumbers(a, b)), "none")

\* getWeatherInfo: an error of the weather service becomes the returned text.
GetWeatherInfo(reply) ==
  IF reply.kind = "error"
    THEN Returned("weather lookup failed: " \o reply.text, "LookupFailed")
    ELSE Returned(reply.text, "none")

\* handleWeatherQuery: query.match(...) and then getWeatherInfo.
HandleWeatherQuery(query, reply) ==
  IF ~IsString(query)
    THEN Threw("weather query failed: query.match is not a function", "Unexpected")
    ELSE GetWeatherInfo(reply)

\* The switch of executeSubQuery.
Dispatch(subQuery, reply) ==
  CASE subQuery.type = "knowledge_query" -> HandleKnowledgeQuery(subQuery.query, reply)
    [] subQuery.type = "math_calculation" -> HandleMathCalculation(subQuery.query)
    [] subQuery.type = "weather_query" -> HandleWeatherQuery(subQuery.query, reply)
    [] OTHER -> Threw("unsupported query type: " \o subQuery.type, "Unsupported")

NoResult ==
  [id |-> Undefined, query |-> Undefined, type |-> Undefined, response |-> Undefined,
   success |-> FALSE, error |-> Undefined, executionTime |-> 0]

\* Mutant of SubQueryResult: the catch block leaves the message out and
\* keeps what the handler had produced.
SubQueryResultWithoutError(subQuery, outcome, startTime, endTime) ==
  [id |-> subQuery.id, query |-> subQuery.query, type |-> subQuery.type,
   response |-> outcome.value, success |-> ~outcome.threw, error |-> Undefined,
   executionTime |-> endTime - startTime]

\* The SubQueryResult executeSubQuery builds from its handler's outcome.
SubQueryResult(subQuery, outcome, startTime, endTime) ==
  IF ~outcome.threw
    THEN [id |-> subQuery.id, query |-> subQuery.query, type |-> subQuery.type,
          response |-> outcome.value, success |-> TRUE, error |-> Undefined,
          executionTime |-> endTime - startTime]
    ELSE [id |-> subQuery.id, query |-> subQuery.query, type |-> subQuery.type,
          response |-> "", success |-> FALSE, error |-> outcome.value,
          executionTime |-> endTime - startTime]

\* executeSubQuery: try { handler } catch { failed result }.
ExecuteSubQuery(subQuery, reply, startTime, endTime) ==
  SubQueryResult(subQuery, Dispatch(subQuery, reply), startTime, endTime)

\* Mutant of ExecutionOrder: the input is not sorted.
ExecutionOrderAsGiven(subQueries) == subQueries

\* The order in which executeSubQueries maps its input to tasks.
ExecutionOrder(subQueries) == SortByPriority(subQueries)

\* Mutant of InputAfterSort: the argument itself is sorted.
InputSortedInPlace(subQueries) == SortByPriority(subQueries)

\* The caller's list after `[...subQueries].sort(...)`: the copy is sorted,
\* the argument keeps its order.
InputAfterSort(subQueries) == subQueries

\* Mutant of StartTasks: a task is started one tick after the one before it.
StartTasksInTurn(subQueries, time) ==
  [i \in 1..Len(subQueries) |->
     [subQuery |-> ExecutionOrder(subQueries)[i], settled |-> FALSE,
      startTime |-> time + i - 1, handler |-> NoOutcome, result |-> NoResult]]

\* sortedQueries.map(async ...): every task is started in the same turn.
StartTasks(subQueries, time) ==
  [i \in 1..Len(subQueries) |->
     [subQuery |-> ExecutionOrder(subQueries)[i], settled |-> FALSE, startTime |-> time,
      handler |-> NoOutcome, result |-> NoResult]]

\* Mutant of AllSettled: Promise.race instead of Promise.all.
AnySettled(ts) == ts = << >> \/ \E i \in 1..Len(ts) : ts[i].settled

\* Mutant of AllSettled: a knowledge query that has not answered is given
\* up (a timeout on the retrieval call).
AllSettledOrTimedOut(ts) ==
  \A i \in 1..Len(ts) : ts[i].settled \/ ts[i].subQuery.type = "knowledge_query"

\* Promise.all over tasks that never reject: resolved when all are settled.
AllSettled(ts) == \A i \in 1..Len(ts) : ts[i].settled

\* Mutant of CollectResults: only the results of the tasks that succeeded.
CollectSuccessfulResults(ts) ==
  SelectSeq([i \in 1..Len(ts) |-> ts[i].result], LAMBDA r : r.success)

\* Mutant of CollectResults: one failed task rejects the whole batch.
CollectResultsFailFast(ts) ==
  IF \E i \in 1..Len(ts) : ts[i].handler.threw THEN << >>
  ELSE [i \in 1..Len(ts) |-> ts[i].result]

\* The value of Promise.all: the results by task position.
CollectResults(ts) == [i \in 1..Len(ts) |-> ts[i].result]

(***************************************************************************)
(* ResultAggregator                                                        *)
(***************************************************************************)
RECURSIVE SumExecutionTime(_)
SumExecutionTime(rs) ==
  IF rs = << >> THEN 0 ELSE rs[1].executionTime + SumExecutionTime(Tail(rs))

Successful(rs) == SelectSeq(rs, LAMBDA r : r.success)
Failed(rs) == SelectSeq(rs, LAMBDA r : ~r.success)

\* Mutant of CalculateExecutionSummary: a result counts as failed when its
\* response is empty.
CalculateExecutionSummaryByResponse(subResults) ==
  [totalSubQueries    |-> Len(subResults),
   successfulQueries  |-> Len(Successful(subResults)),
   failedQueries      |-> Len(SelectSeq(subResults, LAMBDA r : r.response = "")),
   totalExecutionTime |-> SumExecutionTime(subResults)]

CalculateExecutionSummary(subResults) ==
  [totalSubQueries    |-> Len(subResults),
   successfulQueries  |-> Len(Successful(subResults)),
   failedQueries      |-> Len(Failed(subResults)),
   totalExecutionTime |-> SumExecutionTime(subResults)]

\* Array.prototype.join of the results' responses with a separator.
RECURSIVE JoinResponses(_, _)
JoinResponses(rs, sep) ==
  IF rs = << >> THEN ""
  ELSE IF Len(rs) = 1 THEN rs[1].response
  ELSE rs[1].response \o sep \o JoinResponses(Tail(rs), sep)

\* Array.prototype.join of the results' error messages with a separator.
RECURSIVE JoinErrors(_, _)
JoinErrors(rs, sep) ==
  IF rs = << >> THEN ""
  ELSE IF Len(rs) = 1 THEN rs[1].error
  ELSE rs[1].error \o sep \o JoinErrors(Tail(rs), sep)

SimpleFallbackAggregation(subResults) ==
  LET joined == IF Successful(subResults) = << >> THEN ""
                ELSE JoinResponses(Successful(subResults), "\n\n")
      withFailures ==
        IF Failed(subResults) = << >> THEN joined
        ELSE (IF joined # "" THEN joined \o "\n\n" ELSE "")
               \o "some queries failed: " \o JoinErrors(Failed(subResults), ", ")
  IN IF withFailures # "" THEN withFailures ELSE "all queries failed"

\* What Settings.llm.complete and the JSON extraction can yield for the
\* aggregation prompt: the call rejected, a text without a JSON object, or
\* an object ("" in `response`: the field is missing or falsy).
AggregationReplies ==
  {[kind |-> k, response |-> ""] : k \in {"call_failed", "no_json"}}
  \cup {[kind |-> "object", response |-> r] : r \in {"", "PPI is N/A and 12 x 8 is 96"}}

\* parseAggregationResult throws unless the reply holds a truthy `response`.
AggregationParses(reply) == reply.kind = "object" /\ reply.response # ""

NoAggregationReply == [kind |-> "none", response |-> ""]

\* The caller's list of results after aggregateResults: filter, map and
\* join build new values, the argument keeps its elements.
ResultsAfterAggregation(subResults) == subResults

\* Mutant of AggregateResults: the oracle's reply is used unchecked.
AggregateResultsUnchecked(originalQuery, subResults, reply) ==
  [originalQuery |-> originalQuery,
   finalResponse |-> IF Len(subResults) = 1 THEN subResults[1].response ELSE reply.response,
   subResults |-> subResults,
   aggregationReasoning |-> "aggregation done",
   executionSummary |-> CalculateExecutionSummary(subResults)]

\* aggregateResults, given the oracle's reply for more than one result.
AggregateResults(originalQuery, subResults, reply) ==
  IF Len(subResults) = 1
    THEN [originalQuery |-> originalQuery,
          finalResponse |-> IF subResults[1].success THEN subResults[1].response
                            ELSE "query failed: " \o subResults[1].error,
          subResults |-> subResults,
          aggregationReasoning |-> "single query, no aggregation needed",
          executionSummary |-> CalculateExecutionSummary(subResults)]
  ELSE IF AggregationParses(reply)
    THEN [originalQuery |-> originalQuery,
          finalResponse |-> reply.response,
          subResults |-> subResults,
          aggregationReasoning |-> "aggregation done",
          executionSummary |-> CalculateExecutionSummary(subResults)]
  ELSE [originalQuery |-> originalQuery,
        finalResponse |-> SimpleFallbackAggregation(subResults),
        subResults |-> subResults,
        aggregationReasoning |-> "LLM aggregation failed, simple join used: " \o reply.kind,
        executionSummary |-> CalculateExecutionSummary(subResults)]

(***************************************************************************)
(* RouterEngine and LLMClassifier                                          *)
(***************************************************************************)
\* The keys of DATASET_CONFIGS.
DatasetKeys == {"machine_learning", "price_index_statistics"}

\* The names every object literal inherits from Object.prototype; the `in`
\* operator finds them in DATASET_CONFIGS although they are no keys of it.
InheritedKeys == {"toString", "constructor"}

\* key in DATASET_CONFIGS
InDatasetConfigs(key) == key \in DatasetKeys \cup InheritedKeys

\* DATASET_CONFIGS[key].description
DatasetDescription(key) ==
  CASE key = "machine_learning" -> "machine learning course"
    [] key = "price_index_statistics" -> "price index statistics"
    [] OTHER -> Undefined

\* The texts routeQuery is called with.
RouterQueries ==
  QueryTexts \cup
    {"machine learning model training algorithm",
     "machine learning algorithm training",
     "auc roc epoch model",
     "machine learning deep learning neural network algorithm training",
     "cpi ppi inflation market economic"}

\* The entries of mlKeywords that the lower-cased text includes, in list
\* order, each with its length.
MlKeywordMatches(text) ==
  CASE text = "machine learning model training algorithm" ->
         <<[keyword |-> "machine learning", length |-> 16],
           [keyword |-> "algorithm", length |-> 9],
           [keyword |-> "model", length |-> 5],
           [keyword |-> "training", length |-> 8]>>
    [] text = "machine learning algorithm training" ->
         <<[keyword |-> "machine learning", length |-> 16],
           [keyword |-> "algorithm", length |-> 9],
           [keyword |-> "training", length |-> 8]>>
    [] text = "auc roc epoch model" ->
         <<[keyword |-> "AUC", length |-> 3],
           [keyword |-> "ROC", length |-> 3],
           [keyword |-> "epoch", length |-> 5],
           [keyword |-> "model", length |-> 5]>>
    [] text = "machine learning deep learning neural network algorithm training" ->
         <<[keyword |-> "machine learning", length |-> 16],
           [keyword |-> "deep learning", length |-> 13],
           [keyword |-> "neural network", length |-> 14],
           [keyword |-> "algorithm", length |-> 9],
           [keyword |-> "training", length |-> 8]>>
    [] OTHER -> << >>

\* The entries of priceIndexKeywords that the lower-cased text includes.
PriceKeywordMatches(text) ==
  CASE text = "PPI and Beijing weather" -> <<[keyword |-> "PPI", length |-> 3]>>
    [] text = "cpi ppi inflation market economic" ->
         <<[keyword |-> "CPI", length |-> 3],
           [keyword |-> "PPI", length |-> 3],
           [keyword |-> "inflation", length |-> 9],
           [keyword |-> "economic", length |-> 8],
           [keyword |-> "market", length |-> 6]>>
    [] OTHER -> << >>

\* A score is a double: the one `ulps` steps above the double that the
\* decimal literal hundredths/100 denotes (0.1 + 0.1 + 0.1 + 0.1 + 4 * 0.05
\* is 0.6000000000000001, one step above 0.6).
Double(hundredths, ulps) == [hundredths |-> hundredths, ulps |-> ulps]

\* a + b in IEEE-754 double arithmetic, for the sums calculateKeywordScore
\* forms over up to five matches: the sum of the decimals, and the step the
\* rounding of the addition leaves it at.
FloatAdd(a, b) ==
  LET operands == <<a.hundredths, a.ulps, b.hundredths, b.ulps>>
  IN Double(a.hundredths + b.hundredths,
            CASE operands \in {<<20, 0, 10, 0>>, <<30, 1, 15, 0>>, <<30, 1, 15, 1>>,
                               <<40, 0, 20, 0>>, <<45, 1, 15, 0>>, <<45, 1, 20, 0>>,
                               <<55, 0, 15, 0>>, <<60, 1, 25, 0>>, <<70, 1, 25, 0>>} -> 1
              [] operands \in {<<30, 0, 15, 0>>, <<35, 0, 10, 0>>, <<45, -1, 10, 0>>,
                               <<45, -1, 20, 0>>, <<55, -1, 10, 0>>, <<55, -1, 25, 0>>,
                               <<65, -1, 25, 0>>} -> -1
              [] OTHER -> 0)

\* matches * 0.05 in double arithmetic (3 * 0.05 is 0.15000000000000002).
BonusOf(matches) == Double(matches * 5, IF matches = 3 THEN 1 ELSE 0)

\* a > b on doubles.
GreaterThan(a, b) ==
  \/ a.hundredths > b.hundredths
  \/ a.hundredths = b.hundredths /\ a.ulps > b.ulps

MinDouble(a, b) == IF GreaterThan(a, b) THEN b ELSE a
MaxDouble(a, b) == IF GreaterThan(b, a) THEN b ELSE a

\* The loop of calculateKeywordScore: score += weight for each match, in
\* list order.
RECURSIVE SumWeights(_)
SumWeights(matches) ==
  IF matches = << >> THEN Double(0, 0)
  ELSE FloatAdd(SumWeights(SubSeq(matches, 1, Len(matches) - 1)),
                Double(IF matches[Len(matches)].length > 5 THEN 15 ELSE 10, 0))

\* calculateKeywordScore.
CalculateKeywordScore(matches) ==
  MinDouble(IF Len(matches) > 1 THEN FloatAdd(SumWeights(matches), BonusOf(Len(matches)))
            ELSE SumWeights(matches),
            Double(100, 0))

\* What Settings.llm.complete and the JSON extraction can yield for the
\* classification prompt.  In an object "" and 0 stand for a missing or
\* falsy field; "weather_reports" is no key of DATASET_CONFIGS.
ClassifierReplies ==
  {[kind |-> k, dataset |-> "", confidence |-> 0, reasoning |-> ""] :
      k \in {"call_failed", "no_json", "invalid_json"}}
  \cup
  [kind : {"object"},
   dataset : DatasetKeys \cup {"weather_reports", "toString", ""},
   confidence : {-50, 0, 90, 150},
   reasoning : {"", "topic of the query"}]

NoClassifierReply == [kind |-> "none", dataset |-> "", confidence |-> 0, reasoning |-> ""]

\* The reason parseClassificationResult's try block throws, "" if none.
ClassificationParseError(reply) ==
  IF reply.kind = "no_json" THEN "no JSON found in the reply"
  ELSE IF reply.kind = "invalid_json" THEN "JSON.parse error"
  ELSE IF reply.dataset = "" \/ reply.confidence = 0 \/ reply.reasoning = ""
    THEN "required fields missing"
  ELSE IF ~InDatasetConfigs(reply.dataset) THEN "invalid dataset: " \o reply.dataset
  ELSE IF reply.confidence < 0 \/ reply.confidence > 100 THEN "invalid confidence"
  ELSE ""

\* parseClassificationResult: the parsed selection, or the default one its
\* catch block returns.
ParseClassificationResult(reply) ==
  IF ClassificationParseError(reply) = ""
    THEN [dataset |-> reply.dataset, confidence |-> reply.confidence,
          reasoning |-> reply.reasoning]
    ELSE [dataset |-> "price_index_statistics", confidence |-> 30,
          reasoning |-> "LLM reply not parsed, default dataset used: "
                          \o ClassificationParseError(reply)]

NoSelection == [dataset |-> Undefined, confidence |-> 0, reasoning |-> Undefined]

\* classify: the parsed result, or an Error when the call itself failed.
Classify(reply) ==
  IF reply.kind = "call_failed"
    THEN [threw |-> TRUE, message |-> "LLM classification service failed", result |-> NoSelection]
    ELSE [threw |-> FALSE, message |-> "", result |-> ParseClassificationResult(reply)]

BestScore(text) ==
  MaxDouble(CalculateKeywordScore(MlKeywordMatches(text)),
            CalculateKeywordScore(PriceKeywordMatches(text)))

\* Mutant of AsksClassifier: the threshold is met by a score of 0.6.
AsksClassifierBelowThreshold(text) ==
  GreaterThan(Double(60, 0), BestScore(text))

\* selectBestDataset asks the classifier unless the keyword score is
\* above 0.6.
AsksClassifier(text) == ~GreaterThan(BestScore(text), Double(60, 0))

\* selectBestDataset, given the oracle's reply to the classifier.
SelectBestDataset(text, reply) ==
  LET mlScore    == CalculateKeywordScore(MlKeywordMatches(text))
      priceScore == CalculateKeywordScore(PriceKeywordMatches(text))
  IN IF ~AsksClassifier(text)
       THEN [dataset |-> IF GreaterThan(mlScore, priceScore) THEN "machine_learning"
                         ELSE "price_index_statistics",
             confidence |-> MinDouble(BestScore(text), Double(95, 0)).hundredths,
             reasoning |-> "keyword match"]
     ELSE IF Classify(reply).threw
       THEN [dataset |-> "price_index_statistics", confidence |-> 40,
             reasoning |-> "LLM service failed, default dataset used: "
                             \o Classify(reply).message]
     ELSE [dataset |-> Classify(reply).result.dataset,
           confidence |-> Classify(reply).result.confidence,
           reasoning |-> "LLM classification: " \o Classify(reply).result.reasoning]

\* The values of routeQuery's optional second argument.
SuggestedDatasets ==
  {Undefined, "", "machine_learning", "price_index_statistics", "weather_reports", "toString"}

\* The condition of routeQuery's first branch:
\* suggestedDataset && suggestedDataset in DATASET_CONFIGS.
HintAccepted(suggestedDataset) ==
  suggestedDataset \notin {Undefined, ""} /\ InDatasetConfigs(suggestedDataset)

\* routeQuery: whether it threw, the selection, the dataset the retrieval
\* was issued against, whether the heuristic and the classifier were
\* evaluated, and the fields of the RouterResponse.
RouteQuery(text, suggestedDataset, classifierReply, knowledgeReply) ==
  LET selection ==
        IF HintAccepted(suggestedDataset)
          THEN [dataset |-> suggestedDataset, confidence |-> 90,
                reasoning |-> "Master Agent suggests the dataset " \o suggestedDataset]
          ELSE SelectBestDataset(text, classifierReply)
      retrieval == ExecuteQuery(knowledgeReply)
  IN [threw           |-> retrieval.threw,
      selection       |-> selection,
      scored          |-> ~HintAccepted(suggestedDataset),
      classifierCalls |-> IF ~HintAccepted(suggestedDataset) /\ AsksClassifier(text)
                          THEN 1 ELSE 0,
      retrievedFrom   |-> selection.dataset,
      response        |-> retrieval.value,
      selectedDataset |-> DatasetDescription(selection.dataset),
      confidence      |-> selection.confidence,
      routingReason   |-> selection.reasoning]

\* Mutant of ClassifierCalls: a second attempt after the first.
ClassifierCallsWithRetry(subQuery) ==
  IF subQuery.type = "knowledge_query" /\ IsString(subQuery.query) THEN 2 ELSE 0

\* The oracle calls the handler of a sub-query issues for classification:
\* one, when it is a knowledge query whose keyword score is not above 0.6.
ClassifierCalls(subQuery) ==
  IF subQuery.type = "knowledge_query" /\ IsString(subQuery.query)
       /\ AsksClassifier(subQuery.query)
    THEN 1 ELSE 0

\* Mutant of AggregatorCalls: the oracle is asked for a single result too.
AggregatorCallsAlways(rs) == 1

\* The oracle calls aggregateResults issues: none for a single result,
\* one (aggregateWithLLM) otherwise.
AggregatorCalls(rs) == IF Len(rs) = 1 THEN 0 ELSE 1

\* The classification calls of the tasks executeSubQueries has started.
StartedClassifierCalls(ts) == [i \in 1..Len(ts) |-> ClassifierCalls(ts[i].subQuery)]

(***************************************************************************)
(* MasterAgent.processQuery                                                *)
(***************************************************************************)
VARIABLES
  pc,            \* where the processQuery call (or the executor call) stands
  query,         \* the text processQuery was called with
  decompReply,   \* the decomposition oracle's reply, once it has arrived
  decomposition, \* decomposeQuery's result
  submitted,     \* the list executeSubQueries was called with
  tasks,         \* the tasks of executeSubQueries, in the order it started them
  subResults,    \* the value executeSubQueries returned
  aggReply,      \* the aggregation oracle's reply, once it has arrived
  outcome,       \* how the processQuery call ended: "pending", "returned", "threw"
  response,      \* the MasterAgentResponse it returned
  caught,        \* an exception reached processQuery's catch block
  now,           \* Date.now()
  oracleCalls,   \* how often Settings.llm.complete was called, per call site
  call,          \* one call of a function of the services, and its result
  store          \* the vector store service: its cache and what it did to the store

vars == <<pc, query, decompReply, decomposition, submitted, tasks, subResults,
          aggReply, outcome, response, caught, now, oracleCalls, call, store>>

\* A client of the vector store that has not been asked anything.
NoClient == [constructed |-> FALSE, info |-> "none", list |-> [kind |-> "none", names |-> {}]]

\* A VectorStoreService after construction, and the record of its calls to
\* the store: connection attempts, waits (ms), the existence check,
\* deletions and builds of a collection.
NoStore ==
  [attempts |-> 0, waits |-> << >>, connected |-> FALSE, client |-> NoClient,
   checked |-> FALSE, exists |-> FALSE, deletions |-> 0, builds |-> 0]

NoOracleCalls == [decompose |-> 0, classify |-> << >>, aggregate |-> 0]

NoCall == [function |-> "none", input |-> << >>, output |-> << >>, returned |-> FALSE]

NoDecompositionReply == [kind |-> "none", hasMultipleIntents |-> "undefined", subQueries |-> << >>]

NoDecomposition ==
  [originalQuery |-> Undefined, subQueries |-> << >>, hasMultipleIntents |-> FALSE,
   reasoning |-> Undefined]

ZeroSummary ==
  [totalSubQueries |-> 0, successfulQueries |-> 0, failedQueries |-> 0, totalExecutionTime |-> 0]

NoAggregation ==
  [originalQuery |-> Undefined, finalResponse |-> Undefined, subResults |-> << >>,
   aggregationReasoning |-> Undefined, executionSummary |-> ZeroSummary]

NoResponse ==
  [query |-> Undefined, response |-> Undefined, decomposition |-> NoDecomposition,
   subResults |-> << >>, aggregation |-> NoAggregation, executionSummary |-> ZeroSummary,
   aggregationReasoning |-> Undefined, queryType |-> Undefined, confidence |-> 0]

\* Mutant of NextStage: a failed aggregation sends the request back to
\* decomposition.
NextStageWithRetry(stage) ==
  CASE stage = "Received" -> "Decomposing"
    [] stage = "Decomposing" -> "Executing"
    [] stage = "Executing" -> "Aggregating"
    [] stage = "Aggregating" -> "Decomposing"
    [] OTHER -> stage

\* The stage that follows each stage in the body of processQuery.
NextStage(stage) ==
  CASE stage = "Received" -> "Decomposing"
    [] stage = "Decomposing" -> "Executing"
    [] stage = "Executing" -> "Aggregating"
    [] stage = "Aggregating" -> "Completed"
    [] OTHER -> stage

RECURSIVE SumConfidence(_)
SumConfidence(subQueries) ==
  IF subQueries = << >> THEN 0
  ELSE subQueries[1].confidence + SumConfidence(Tail(subQueries))

\* Mutant of CalculateOverallConfidence: the confidence of the first
\* sub-query.
ConfidenceOfFirst(subQueries) ==
  IF Len(subQueries) = 0 THEN 0 ELSE subQueries[1].confidence

\* calculateOverallConfidence: totalConfidence / subQueries.length.  The
\* confidences of the model are chosen so that the quotient, in hundredths,
\* is a whole number.
CalculateOverallConfidence(subQueries) ==
  IF Len(subQueries) = 0 THEN 0
  ELSE SumConfidence(subQueries) \div Len(subQueries)

\* The object processQuery returns at the end of its try block
\* (analysis.queryType and analysis.confidence are kept as fields).
MasterAgentResponse(q, d, rs, a) ==
  [query |-> q, response |-> a.finalResponse, decomposition |-> d, subResults |-> rs,
   aggregation |-> a, executionSummary |-> a.executionSummary,
   aggregationReasoning |-> a.aggregationReasoning,
   queryType |-> IF d.hasMultipleIntents THEN "multi_intent" ELSE "single_intent",
   confidence |-> CalculateOverallConfidence(d.subQueries)]

\* The object processQuery's catch block returns.
ErrorResponse(q, message) ==
  [query |-> q, response |-> "query processing failed: " \o message,
   decomposition |-> [originalQuery |-> q, subQueries |-> << >>,
                      hasMultipleIntents |-> FALSE, reasoning |-> "query processing failed"],
   subResults |-> << >>,
   aggregation |-> [originalQuery |-> q,
                    finalResponse |-> "query processing failed: " \o message,
                    subResults |-> << >>,
                    aggregationReasoning |-> "query processing failed",
                    executionSummary |-> ZeroSummary],
   executionSummary |-> ZeroSummary,
   aggregationReasoning |-> "query processing failed", queryType |-> "single_intent",
   confidence |-> 0]

\* Mutant of CatchAtBoundary: the exception leaves processQuery.
Rethrow(q, message) == [outcome |-> "threw", response |-> NoResponse]

\* processQuery's catch: the exception ends as a returned response.
CatchAtBoundary(q, message) == [outcome |-> "returned", response |-> ErrorResponse(q, message)]

\* Exceptions that no stage turns into a value (console output failing in a
\* Logger call, resources running out).
UnexpectedErrors == {"write EPIPE"}

Init ==
  /\ pc = "Received"
  /\ query \in UserQueries
  /\ decompReply = NoDecompositionReply
  /\ decomposition = NoDecomposition
  /\ submitted = << >>
  /\ tasks = << >>
  /\ subResults = << >>
  /\ aggReply = NoAggregationReply
  /\ outcome = "pending"
  /\ response = NoResponse
  /\ caught = FALSE
  /\ now = 0
  /\ store = NoStore
  /\ oracleCalls = NoOracleCalls
  /\ call = NoCall

\* processQuery is entered and awaits decomposeQuery's oracle call.
ProcessQuery ==
  /\ pc = "Received"
  /\ pc' = NextStage(pc)
  /\ oracleCalls' = [oracleCalls EXCEPT !.decompose = @ + 1]
  /\ UNCHANGED <<query, decompReply, decomposition, submitted, tasks, subResults,
                 aggReply, outcome, response, caught, now, call, store>>

\* The decomposition oracle answers or fails; decomposeQuery returns and
\* executeSubQueries starts one task per sub-query.
DecomposeReturns ==
  /\ pc = "Decomposing"
  /\ \E reply \in DecompositionReplies :
       /\ decompReply' = reply
       /\ decomposition' = DecomposeQuery(reply, query, now)
  /\ submitted' = InputAfterSort(decomposition'.subQueries)
  /\ tasks' = StartTasks(decomposition'.subQueries, now)
  /\ oracleCalls' = [oracleCalls EXCEPT !.classify = StartedClassifierCalls(tasks')]
  /\ pc' = NextStage(pc)
  /\ UNCHANGED <<query, subResults, aggReply, outcome, response, caught, now, call, store>>

\* Time passes, then task i's handler finishes (the service it awaits
\* replies, if it calls one) and executeSubQuery builds the task's result
\* with the clock's reading.
TaskSettles(i) ==
  /\ pc = "Executing"
  /\ ~tasks[i].settled
  /\ now' \in now..MaxTime
  /\ \E reply \in ServiceReplies(tasks[i].subQuery) :
       tasks' = [tasks EXCEPT ![i] =
                   [subQuery |-> tasks[i].subQuery, settled |-> TRUE,
                    startTime |-> tasks[i].startTime,
                    handler |-> Dispatch(tasks[i].subQuery, reply),
                    result |-> ExecuteSubQuery(tasks[i].subQuery, reply, tasks[i].startTime, now')]]
  /\ UNCHANGED <<pc, query, decompReply, decomposition, submitted, subResults,
                 aggReply, outcome, response, caught, oracleCalls, call, store>>

\* Promise.all resolves and executeSubQueries returns to its caller.
ExecuteSubQueriesReturns(next) ==
  /\ pc = "Executing"
  /\ AllSettled(tasks)
  /\ subResults' = CollectResults(tasks)
  /\ pc' = next
  /\ UNCHANGED <<query, decompReply, decomposition, submitted, tasks,
                 aggReply, outcome, response, caught, now, call, store>>

\* executeSubQueries returns to processQuery, which calls aggregateResults;
\* that awaits the oracle unless there is exactly one result.
ExecutorReturns ==
  /\ ExecuteSubQueriesReturns(NextStage(pc))
  /\ oracleCalls' = [oracleCalls EXCEPT !.aggregate = @ + AggregatorCalls(subResults')]

\* aggregateResults returns and processQuery returns its response.
AggregatorReturns ==
  /\ pc = "Aggregating"
  /\ \E reply \in (IF Len(subResults) = 1 THEN {NoAggregationReply} ELSE AggregationReplies) :
       /\ aggReply' = reply
       /\ response' = MasterAgentResponse(query, decomposition, subResults,
                                          AggregateResults(query, subResults, reply))
  /\ subResults' = ResultsAfterAggregation(subResults)
  /\ outcome' = "returned"
  /\ pc' = NextStage(pc)
  /\ UNCHANGED <<query, decompReply, decomposition, submitted, tasks, caught, now,
                 oracleCalls, call, store>>

\* An exception escapes a stage inside the try block of processQuery: the
\* block's locals are dropped and the catch block builds the response.
UnexpectedException ==
  /\ pc \in {"Decomposing", "Executing", "Aggregating"}
  /\ \E message \in UnexpectedErrors :
       /\ outcome' = CatchAtBoundary(query, message).outcome
       /\ response' = CatchAtBoundary(query, message).response
  /\ caught' = TRUE
  /\ pc' = "Completed"
  /\ decompReply' = NoDecompositionReply
  /\ decomposition' = NoDecomposition
  /\ submitted' = << >>
  /\ tasks' = << >>
  /\ subResults' = << >>
  /\ aggReply' = NoAggregationReply
  /\ UNCHANGED <<query, now, oracleCalls, call, store>>

Next ==
  \/ ProcessQuery
  \/ DecomposeReturns
  \/ \E i \in 1..Len(tasks) : TaskSettles(i)
  \/ ExecutorReturns
  \/ AggregatorReturns
  \/ UnexpectedException

Spec == Init /\ [][Next]_vars

\* Every awaited call returns or fails, and every continuation is run.
FairSpec ==
  /\ Spec
  /\ WF_vars(ProcessQuery)
  /\ WF_vars(DecomposeReturns)
  /\ WF_vars(\E i \in 1..Len(tasks) : TaskSettles(i))
  /\ WF_vars(ExecutorReturns)
  /\ WF_vars(AggregatorReturns)

(***************************************************************************)
(* SubAgentExecutor.executeSubQueries called on its own, with any list.    *)
(***************************************************************************)
\* A calculation whose text holds one number.
OneNumberSubQuery ==
  [id |-> "", query |-> "compute 12", type |-> "math_calculation", priority |-> 1,
   confidence |-> 20]

\* The lists a caller can hand to executeSubQueries: SubQuery objects in
\* any priority arrangement, with ids of their own.
CallerSubQueryLists ==
  {[i \in 1..Len(s) |-> MakeSubQuery(s[i], i, "please compute", 0)] :
     s \in SeqUpTo(PipelineSubQueries \cup {OneNumberSubQuery}, MaxSubQueries)}

ExecInit ==
  /\ pc = "Executing"
  /\ query = "please compute"
  /\ decompReply = NoDecompositionReply
  /\ decomposition = NoDecomposition
  /\ \E given \in CallerSubQueryLists :
       /\ call = [function |-> "executeSubQueries", input |-> [subQueries |-> given],
                  output |-> << >>, returned |-> FALSE]
       /\ submitted = InputAfterSort(given)
       /\ tasks = StartTasks(given, 0)
  /\ subResults = << >>
  /\ aggReply = NoAggregationReply
  /\ outcome = "pending"
  /\ response = NoResponse
  /\ caught = FALSE
  /\ now = 0
  /\ store = NoStore
  /\ oracleCalls = [NoOracleCalls EXCEPT !.classify = StartedClassifierCalls(tasks)]

\* executeSubQueries returns to the caller.
DirectCallReturns ==
  /\ ExecuteSubQueriesReturns("Returned")
  /\ UNCHANGED oracleCalls

\* The caller hands the results to aggregateResults, which returns.
DirectAggregationReturns ==
  /\ pc = "Returned"
  /\ \E reply \in (IF Len(subResults) = 1 THEN {NoAggregationReply} ELSE AggregationReplies) :
       /\ aggReply' = reply
       /\ call' = [call EXCEPT !.output = AggregateResults(query, subResults, reply),
                               !.returned = TRUE]
  /\ subResults' = ResultsAfterAggregation(subResults)
  /\ oracleCalls' = [oracleCalls EXCEPT !.aggregate = @ + AggregatorCalls(subResults)]
  /\ pc' = "Aggregated"
  /\ UNCHANGED <<query, decompReply, decomposition, submitted, tasks, outcome, response,
                 caught, now, store>>

ExecNext ==
  \/ \E i \in 1..Len(tasks) : TaskSettles(i)
  \/ DirectCallReturns
  \/ DirectAggregationReturns

ExecSpec == ExecInit /\ [][ExecNext]_vars

(***************************************************************************)
(* Two processQuery calls on one MasterAgent, interleaved at their awaits. *)
(* Every variable of a call is a function of the request; the clock is     *)
(* not advanced.                                                           *)
(***************************************************************************)
Requests == {"A", "B"}

\* Mutant of Slot: the intermediate results are kept in fields of the
\* shared MasterAgent instead of locals of the call.
SharedSlot(r) == "A"

\* Where a call keeps decomposition, tasks and subResults: in constants
\* local to the call.
Slot(r) == r

\* The sub-queries the decomposition oracle lists in these runs.
ConcSubQueries ==
  {sq \in PipelineSubQueries :
     \/ sq.type = "knowledge_query" /\ sq.query = "PPI and Beijing weather"
     \/ sq.type = "math_calculation" /\ sq.query = "please compute"}

ConcDecompositionReplies ==
  {reply \in DecompositionReplies :
     \/ reply.kind = "call_failed"
     \/ /\ reply.kind = "object"
        /\ reply.hasMultipleIntents = "true"
        /\ \A i \in 1..Len(reply.subQueries) : reply.subQueries[i] \in ConcSubQueries}

\* The text each of the two calls is made with.
ConcQueries == [r \in Requests |-> IF r = "A" THEN "compute 12 * 8" ELSE "PPI and Beijing weather"]

ConcInit ==
  /\ pc = [r \in Requests |-> "Received"]
  /\ query = ConcQueries
  /\ decompReply = [r \in Requests |-> NoDecompositionReply]
  /\ decomposition = [r \in Requests |-> NoDecomposition]
  /\ submitted = [r \in Requests |-> << >>]
  /\ tasks = [r \in Requests |-> << >>]
  /\ subResults = [r \in Requests |-> << >>]
  /\ aggReply = [r \in Requests |-> NoAggregationReply]
  /\ outcome = [r \in Requests |-> "pending"]
  /\ response = [r \in Requests |-> NoResponse]
  /\ caught = [r \in Requests |-> FALSE]
  /\ now = 0
  /\ store = NoStore
  /\ oracleCalls = NoOracleCalls
  /\ call = NoCall

ConcProcessQuery(r) ==
  /\ pc[r] = "Received"
  /\ pc' = [pc EXCEPT ![r] = NextStage(pc[r])]
  /\ UNCHANGED <<query, decompReply, decomposition, submitted, tasks, subResults,
                 aggReply, outcome, response, caught, now, oracleCalls, call, store>>

ConcDecomposeReturns(r) ==
  /\ pc[r] = "Decomposing"
  /\ \E reply \in ConcDecompositionReplies :
       /\ decompReply' = [decompReply EXCEPT ![r] = reply]
       /\ decomposition' = [decomposition EXCEPT ![Slot(r)] = DecomposeQuery(reply, query[r], now)]
  /\ submitted' = [submitted EXCEPT ![Slot(r)] = decomposition'[Slot(r)].subQueries]
  /\ tasks' = [tasks EXCEPT ![Slot(r)] = StartTasks(submitted'[Slot(r)], now)]
  /\ pc' = [pc EXCEPT ![r] = NextStage(pc[r])]
  /\ UNCHANGED <<query, subResults, aggReply, outcome, response, caught, now, oracleCalls, call, store>>

ConcTaskSettles(r, i) ==
  /\ pc[r] = "Executing"
  /\ i \in 1..Len(tasks[Slot(r)])
  /\ ~tasks[Slot(r)][i].settled
  /\ \E reply \in ServiceReplies(tasks[Slot(r)][i].subQuery) :
       tasks' = [tasks EXCEPT ![Slot(r)][i] =
                   [subQuery |-> tasks[Slot(r)][i].subQuery, settled |-> TRUE,
                    startTime |-> tasks[Slot(r)][i].startTime,
                    handler |-> Dispatch(tasks[Slot(r)][i].subQuery, reply),
                    result |-> ExecuteSubQuery(tasks[Slot(r)][i].subQuery, reply,
                                               tasks[Slot(r)][i].startTime, now)]]
  /\ UNCHANGED <<pc, query, decompReply, decomposition, submitted, subResults,
                 aggReply, outcome, response, caught, now, oracleCalls, call, store>>

ConcExecutorReturns(r) ==
  /\ pc[r] = "Executing"
  /\ AllSettled(tasks[Slot(r)])
  /\ subResults' = [subResults EXCEPT ![Slot(r)] = CollectResults(tasks[Slot(r)])]
  /\ pc' = [pc EXCEPT ![r] = NextStage(pc[r])]
  /\ UNCHANGED <<query, decompReply, decomposition, submitted, tasks,
                 aggReply, outcome, response, caught, now, oracleCalls, call, store>>

ConcAggregatorReturns(r) ==
  /\ pc[r] = "Aggregating"
  /\ \E reply \in (IF Len(subResults[Slot(r)]) = 1 THEN {NoAggregationReply}
                   ELSE AggregationReplies) :
       /\ aggReply' = [aggReply EXCEPT ![r] = reply]
       /\ response' = [response EXCEPT ![r] =
            MasterAgentResponse(query[r], decomposition[Slot(r)], subResults[Slot(r)],
                                AggregateResults(query[r], subResults[Slot(r)], reply))]
  /\ outcome' = [outcome EXCEPT ![r] = "returned"]
  /\ pc' = [pc EXCEPT ![r] = NextStage(pc[r])]
  /\ UNCHANGED <<query, decompReply, decomposition, submitted, tasks, subResults, caught, now,
                 oracleCalls, call, store>>

ConcUnexpectedException(r) ==
  /\ pc[r] \in {"Decomposing", "Executing", "Aggregating"}
  /\ \E message \in UnexpectedErrors :
       /\ outcome' = [outcome EXCEPT ![r] = CatchAtBoundary(query[r], message).outcome]
       /\ response' = [response EXCEPT ![r] = CatchAtBoundary(query[r], message).response]
  /\ caught' = [caught EXCEPT ![r] = TRUE]
  /\ pc' = [pc EXCEPT ![r] = "Completed"]
  /\ UNCHANGED <<query, decompReply, decomposition, submitted, tasks, subResults,
                 aggReply, now, oracleCalls, call, store>>

ConcNext ==
  \E r \in Requests :
    \/ ConcProcessQuery(r)
    \/ ConcDecomposeReturns(r)
    \/ \E i \in 1..MaxSubQueries : ConcTaskSettles(r, i)
    \/ ConcExecutorReturns(r)
    \/ ConcAggregatorReturns(r)
    \/ ConcUnexpectedException(r)

ConcSpec == ConcInit /\ [][ConcNext]_vars

(***************************************************************************)
(* Single calls of the parsers, of the classifier and of the router.       *)
(***************************************************************************)
\* Entries of "subQueries" with and without an id, a text, a type and a
\* priority; entries with a confidence below, at the ends of, and above
\* [0, 1], and without one; entries without a type and with a type the
\* oracle invented.  confidenceGiven tells a confidence of 0 from a missing
\* one, which the parser cannot.
ParserSubQueries ==
  [id : {"", "q1"}, query : {"please compute", ""}, type : {"math_calculation"},
   priority : {0, 2}, confidence : {80}, confidenceGiven : {TRUE}]
  \cup
  [id : {""}, query : {"please compute"}, type : {"math_calculation"},
   priority : {1}, confidence : {-50, 0, 100, 150}, confidenceGiven : {TRUE}]
  \cup
  [id : {""}, query : {"please compute"}, type : {"math_calculation"},
   priority : {1}, confidence : {0}, confidenceGiven : {FALSE}]
  \cup
  [id : {"q1"}, query : {"please compute"}, type : {"", "image_query"},
   priority : {1}, confidence : {80}, confidenceGiven : {TRUE}]

\* Texts handed to parseDecompositionResult.
ParserReplies ==
  {[kind |-> k, hasMultipleIntents |-> "undefined", subQueries |-> << >>] :
      k \in {"no_json", "invalid_json", "not_an_array"}}
  \cup
  {[kind |-> "object", hasMultipleIntents |-> h, subQueries |-> s] :
      h \in {"true", "false", "undefined"}, s \in SeqUpTo(ParserSubQueries, MaxSubQueries)}

\* The two readings of the clock at which a text is parsed.
ParseTimes == {t \in (0..MaxTime) \X (0..MaxTime) : t[1] <= t[2]}

\* parseAggregationResult: the parsed response, or the Error it throws.
ParseAggregationResult(reply) ==
  IF AggregationParses(reply)
    THEN [threw |-> FALSE, response |-> reply.response, message |-> ""]
    ELSE [threw |-> TRUE, response |-> "", message |-> "aggregation result not parsed"]

\* The calls made: a function of the services and its arguments.
Calls ==
  {[function |-> "parseDecompositionResult",
    input |-> [reply |-> reply, originalQuery |-> "PPI and Beijing weather", times |-> t],
    output |-> << >>, returned |-> FALSE] : reply \in ParserReplies, t \in ParseTimes}
  \cup
  {[function |-> "parseClassificationResult",
    input |-> [reply |-> reply, times |-> t],
    output |-> << >>, returned |-> FALSE] :
      reply \in {c \in ClassifierReplies : c.kind # "call_failed"}, t \in ParseTimes}
  \cup
  {[function |-> "parseAggregationResult",
    input |-> [reply |-> reply, times |-> t],
    output |-> << >>, returned |-> FALSE] :
      reply \in {a \in AggregationReplies : a.kind # "call_failed"}, t \in ParseTimes}
  \cup
  {[function |-> "handleMathCalculation",
    input |-> [query |-> q],
    output |-> << >>, returned |-> FALSE] : q \in MathTexts}
  \cup
  {[function |-> "classify",
    input |-> [reply |-> reply],
    output |-> << >>, returned |-> FALSE] : reply \in ClassifierReplies}
  \cup
  {[function |-> "routeQuery",
    input |-> [query |-> q, suggestedDataset |-> hint, classifierReply |-> reply,
               knowledgeReply |-> k],
    output |-> << >>, returned |-> FALSE] :
      q \in RouterQueries, hint \in SuggestedDatasets, reply \in ClassifierReplies,
      k \in KnowledgeReplies}

CallInit ==
  /\ pc = "Received"
  /\ query = "PPI and Beijing weather"
  /\ decompReply = NoDecompositionReply
  /\ decomposition = NoDecomposition
  /\ submitted = << >>
  /\ tasks = << >>
  /\ subResults = << >>
  /\ aggReply = NoAggregationReply
  /\ outcome = "pending"
  /\ response = NoResponse
  /\ caught = FALSE
  /\ now = 0
  /\ store = NoStore
  /\ oracleCalls = NoOracleCalls
  /\ call \in Calls

\* The call in progress returns `result`.
Returns(result) ==
  /\ ~call.returned
  /\ call' = [call EXCEPT !.output = result, !.returned = TRUE]
  /\ UNCHANGED <<pc, query, decompReply, decomposition, submitted, tasks, subResults,
                 aggReply, outcome, response, caught, now, oracleCalls, store>>

\* One text is parsed by parseDecompositionResult at two times.
DecompositionParsedTwice ==
  /\ call.function = "parseDecompositionResult"
  /\ Returns(<<ParseDecompositionResult(call.input.reply, call.input.originalQuery,
                                        call.input.times[1]),
               ParseDecompositionResult(call.input.reply, call.input.originalQuery,
                                        call.input.times[2])>>)

ClassificationParsedTwice ==
  /\ call.function = "parseClassificationResult"
  /\ Returns(<<ParseClassificationResult(call.input.reply),
               ParseClassificationResult(call.input.reply)>>)

AggregationParsedTwice ==
  /\ call.function = "parseAggregationResult"
  /\ Returns(<<ParseAggregationResult(call.input.reply),
               ParseAggregationResult(call.input.reply)>>)

ClassifyReturns ==
  /\ call.function = "classify"
  /\ Returns(Classify(call.input.reply))

HandleMathCalculationReturns ==
  /\ call.function = "handleMathCalculation"
  /\ Returns(HandleMathCalculation(call.input.query))

RouteQueryReturns ==
  /\ call.function = "routeQuery"
  /\ Returns(RouteQuery(call.input.query, call.input.suggestedDataset,
                        call.input.classifierReply, call.input.knowledgeReply))

CallNext ==
  \/ DecompositionParsedTwice
  \/ ClassificationParsedTwice
  \/ AggregationParsedTwice
  \/ ClassifyReturns
  \/ HandleMathCalculationReturns
  \/ RouteQueryReturns

CallSpec == CallInit /\ [][CallNext]_vars

(***************************************************************************)
(* VectorStoreService without a cache: getIndex, connectToIndexWithRetry,  *)
(* checkCollectionExists, createNewIndex, deleteCollection                 *)
(***************************************************************************)
\* connectToIndexWithRetry's default for maxRetries.
DefaultMaxRetries == 3

\* DATASET_CONFIGS[dataset].collectionName
CollectionName(dataset) ==
  CASE dataset = "machine_learning" -> "machine_learning_documents"
    [] dataset = "price_index_statistics" -> "price_index_statistics"
    [] OTHER -> Undefined

\* The names checkCollectionExists is called with.
CollectionNames == {CollectionName(d) : d \in DatasetKeys} \cup {"lecture_notes"}

\* What getCollections gives: an error, a value without a `collections`
\* field, or a list whose entries are objects with a name or plain names.
ListReplies ==
  {[kind |-> k, names |-> {}] : k \in {"error", "no_collections_field"}}
  \cup
  [kind : {"objects", "strings"}, names : SUBSET {CollectionName(d) : d \in DatasetKeys}]

\* How the store's client behaves during one checkCollectionExists: whether
\* it could be constructed, and what its two calls give.
ClientReplies == [constructed : BOOLEAN, info : {"ok", "error"}, list : ListReplies]

\* Mutant of CheckCollectionExists: an error of getCollections escapes.
CheckCollectionExistsRethrows(client, collectionName) ==
  IF ~client.constructed THEN [threw |-> FALSE, value |-> FALSE]
  ELSE IF client.info = "ok" THEN [threw |-> FALSE, value |-> TRUE]
  ELSE IF client.list.kind = "error" THEN [threw |-> TRUE, value |-> FALSE]
  ELSE IF client.list.kind = "no_collections_field" THEN [threw |-> FALSE, value |-> FALSE]
  ELSE [threw |-> FALSE, value |-> collectionName \in client.list.names]

\* checkCollectionExists: true when getCollectionInfo answers, else whether
\* the list of getCollections holds the name; false on every error.
CheckCollectionExists(client, collectionName) ==
  IF ~client.constructed THEN [threw |-> FALSE, value |-> FALSE]
  ELSE IF client.info = "ok" THEN [threw |-> FALSE, value |-> TRUE]
  ELSE IF client.list.kind = "error" THEN [threw |-> FALSE, value |-> FALSE]
  ELSE IF client.list.kind = "no_collections_field" THEN [threw |-> FALSE, value |-> FALSE]
  ELSE [threw |-> FALSE, value |-> collectionName \in client.list.names]

\* const waitTime = 1000 * attempt
WaitTime(attempt) == 1000 * attempt

\* Mutant of WaitsBeforeRetry: a wait follows the last failure too.
WaitsAfterEveryFailure(attempt, maxRetries) == TRUE

\* if (attempt < maxRetries): a failed attempt is followed by a wait.
WaitsBeforeRetry(attempt, maxRetries) == attempt < maxRetries

\* Mutant of ForceRecreate: the collection is always deleted first.
ForceRecreateAlways(collectionExists) == TRUE

\* getIndex calls createNewIndex(dataset, true) when the collection exists
\* and createNewIndex(dataset) when it does not.
ForceRecreate(collectionExists) == collectionExists

\* The calls of the service's methods.
StoreCalls ==
  {[function |-> "getIndex",
    input |-> [dataset |-> d, maxRetries |-> DefaultMaxRetries],
    output |-> << >>, returned |-> FALSE] : d \in DatasetKeys}
  \cup
  {[function |-> "connectToIndexWithRetry",
    input |-> [dataset |-> d, maxRetries |-> m],
    output |-> << >>, returned |-> FALSE] : d \in DatasetKeys, m \in 0..DefaultMaxRetries}
  \cup
  {[function |-> "checkCollectionExists",
    input |-> [collectionName |-> n],
    output |-> << >>, returned |-> FALSE] : n \in CollectionNames}

StoreInit ==
  /\ call \in StoreCalls
  /\ pc = IF call.function = "checkCollectionExists" THEN "Checking" ELSE "Connecting"
  /\ store = NoStore
  /\ query = "PPI and Beijing weather"
  /\ decompReply = NoDecompositionReply
  /\ decomposition = NoDecomposition
  /\ submitted = << >>
  /\ tasks = << >>
  /\ subResults = << >>
  /\ aggReply = NoAggregationReply
  /\ outcome = "pending"
  /\ response = NoResponse
  /\ caught = FALSE
  /\ now = 0
  /\ oracleCalls = NoOracleCalls

\* The call of the service returns a value or throws.
StoreCallEnds(threw, value) ==
  /\ call' = [call EXCEPT !.output = [threw |-> threw, value |-> value], !.returned = TRUE]
  /\ pc' = "Returned"

\* One pass of the retry loop: VectorStoreIndex.fromVectorStore answers or
\* fails; a failure that is not the last one is followed by a wait.
ConnectAttempt ==
  /\ pc = "Connecting"
  /\ store.attempts < call.input.maxRetries
  /\ \E connects \in BOOLEAN :
       IF connects
         THEN /\ store' = [store EXCEPT !.attempts = @ + 1, !.connected = TRUE]
              /\ StoreCallEnds(FALSE, "connected index")
         ELSE /\ store' = [store EXCEPT
                             !.attempts = @ + 1,
                             !.waits = IF WaitsBeforeRetry(store.attempts + 1, call.input.maxRetries)
                                         THEN Append(@, WaitTime(store.attempts + 1))
                                         ELSE @]
              /\ pc' = IF WaitsBeforeRetry(store.attempts + 1, call.input.maxRetries)
                         THEN "Waiting" ELSE "Connecting"
              /\ UNCHANGED call
  /\ UNCHANGED <<query, decompReply, decomposition, submitted, tasks, subResults,
                 aggReply, outcome, response, caught, now, oracleCalls>>

\* The timer of the wait fires and the loop goes on.
WaitElapses ==
  /\ pc = "Waiting"
  /\ pc' = "Connecting"
  /\ UNCHANGED <<query, decompReply, decomposition, submitted, tasks, subResults,
                 aggReply, outcome, response, caught, now, oracleCalls, call, store>>

\* The loop ends without an index: connectToIndexWithRetry returns null,
\* and getIndex goes on to checkCollectionExists.
ConnectGivesUp ==
  /\ pc = "Connecting"
  /\ store.attempts >= call.input.maxRetries
  /\ IF call.function = "connectToIndexWithRetry"
       THEN StoreCallEnds(FALSE, "null")
       ELSE pc' = "Checking" /\ UNCHANGED call
  /\ UNCHANGED <<query, decompReply, decomposition, submitted, tasks, subResults,
                 aggReply, outcome, response, caught, now, oracleCalls, store>>

\* checkCollectionExists returns, to its caller or to getIndex, which then
\* calls createNewIndex with or without forceRecreate.
CheckReturns ==
  /\ pc = "Checking"
  /\ \E client \in ClientReplies :
       LET name == IF call.function = "checkCollectionExists"
                     THEN call.input.collectionName
                     ELSE CollectionName(call.input.dataset)
           check == CheckCollectionExists(client, name)
       IN /\ store' = [store EXCEPT !.client = client, !.checked = TRUE,
                                    !.exists = check.value]
          /\ IF call.function = "checkCollectionExists" \/ check.threw
               THEN StoreCallEnds(check.threw, check.value)
               ELSE /\ pc' = IF ForceRecreate(check.value) THEN "Deleting" ELSE "Building"
                    /\ UNCHANGED call
  /\ UNCHANGED <<query, decompReply, decomposition, submitted, tasks, subResults,
                 aggReply, outcome, response, caught, now, oracleCalls>>

\* createNewIndex with forceRecreate: deleteCollection is called and
\* returns, whether or not the store deleted anything.
DeleteCollectionReturns ==
  /\ pc = "Deleting"
  /\ store' = [store EXCEPT !.deletions = @ + 1]
  /\ pc' = "Building"
  /\ UNCHANGED <<query, decompReply, decomposition, submitted, tasks, subResults,
                 aggReply, outcome, response, caught, now, oracleCalls, call>>

\* createNewIndex loads the documents and builds the index, or rethrows
\* what failed; getIndex returns or throws the same.
BuildReturns ==
  /\ pc = "Building"
  /\ \E built \in BOOLEAN :
       IF built
         THEN /\ store' = [store EXCEPT !.builds = @ + 1]
              /\ StoreCallEnds(FALSE, "built index")
         ELSE /\ StoreCallEnds(TRUE, "index creation failed")
              /\ UNCHANGED store
  /\ UNCHANGED <<query, decompReply, decomposition, submitted, tasks, subResults,
                 aggReply, outcome, response, caught, now, oracleCalls>>

StoreNext ==
  \/ ConnectAttempt
  \/ WaitElapses
  \/ ConnectGivesUp
  \/ CheckReturns
  \/ DeleteCollectionReturns
  \/ BuildReturns

StoreSpec == StoreInit /\ [][StoreNext]_vars

(***************************************************************************)
(* VectorStoreService with a cache (vectorStore.ts): two calls of          *)
(* getOrCreateIndex on one service                                         *)
(***************************************************************************)
\* The service after construction: `indices` is empty (0: no entry, else
\* the identity of the cached index object); with it, the index objects
\* made so far and, per call, whether it found its dataset cached, its
\* calls of fromVectorStore, deleteCollection and fromDocuments, and
\* whether it entered while the other call was between the cache check
\* and the cache write for the same dataset.
NoCache ==
  [indices |-> [d \in DatasetKeys |-> 0],
   made |-> 0,
   hit |-> [r \in Requests |-> FALSE],
   loads |-> [r \in Requests |-> 0],
   deletions |-> [r \in Requests |-> 0],
   builds |-> [r \in Requests |-> 0],
   overlapped |-> FALSE]

CacheCalls ==
  {[function |-> "getOrCreateIndex", input |-> [dataset |-> d],
    output |-> << >>, returned |-> FALSE] : d \in DatasetKeys}

CacheInit ==
  /\ call \in [Requests -> CacheCalls]
  /\ pc = [r \in Requests |-> "Idle"]
  /\ store = NoCache
  /\ query = "PPI and Beijing weather"
  /\ decompReply = NoDecompositionReply
  /\ decomposition = NoDecomposition
  /\ submitted = << >>
  /\ tasks = << >>
  /\ subResults = << >>
  /\ aggReply = NoAggregationReply
  /\ outcome = "pending"
  /\ response = NoResponse
  /\ caught = FALSE
  /\ now = 0
  /\ oracleCalls = NoOracleCalls

\* The call r is between its cache check and its cache write.
InFlight(r) == pc[r] \in {"Loading", "Deleting", "Building"}

\* Call r returns a value or throws.
CacheCallEnds(r, threw, value) ==
  /\ call' = [call EXCEPT ![r] = [@ EXCEPT !.output = [threw |-> threw, value |-> value],
                                           !.returned = TRUE]]
  /\ pc' = [pc EXCEPT ![r] = "Returned"]

\* getOrCreateIndex up to its first await: the cached index is returned,
\* or a vector store is made and fromVectorStore is called.
GetOrCreateIndex(r) ==
  /\ pc[r] = "Idle"
  /\ IF store.indices[call[r].input.dataset] # 0
       THEN /\ CacheCallEnds(r, FALSE, store.indices[call[r].input.dataset])
            /\ store' = [store EXCEPT !.hit[r] = TRUE]
       ELSE /\ pc' = [pc EXCEPT ![r] = "Loading"]
            /\ store' = [store EXCEPT
                           !.overlapped =
                             @ \/ \E other \in Requests \ {r} :
                                    /\ InFlight(other)
                                    /\ call[other].input.dataset = call[r].input.dataset]
            /\ UNCHANGED call
  /\ UNCHANGED <<query, decompReply, decomposition, submitted, tasks, subResults,
                 aggReply, outcome, response, caught, now, oracleCalls>>

\* fromVectorStore and the test query answer: the index is cached and
\* returned; or one of them fails and createNewIndex is called.
LoadReturns(r) ==
  /\ pc[r] = "Loading"
  /\ \E loaded \in BOOLEAN :
       IF loaded
         THEN /\ store' = [store EXCEPT !.loads[r] = @ + 1, !.made = @ + 1,
                                        !.indices[call[r].input.dataset] = store.made + 1]
              /\ CacheCallEnds(r, FALSE, store.made + 1)
         ELSE /\ store' = [store EXCEPT !.loads[r] = @ + 1]
              /\ pc' = [pc EXCEPT ![r] = "Deleting"]
              /\ UNCHANGED call
  /\ UNCHANGED <<query, decompReply, decomposition, submitted, tasks, subResults,
                 aggReply, outcome, response, caught, now, oracleCalls>>

\* createNewIndex: deleteCollection has been called and returns.
CachedDeleteCollectionReturns(r) ==
  /\ pc[r] = "Deleting"
  /\ store' = [store EXCEPT !.deletions[r] = @ + 1]
  /\ pc' = [pc EXCEPT ![r] = "Building"]
  /\ UNCHANGED <<query, decompReply, decomposition, submitted, tasks, subResults,
                 aggReply, outcome, response, caught, now, oracleCalls, call>>

\* createNewIndex builds the index, which is cached and returned, or
\* rethrows what failed.
CreateNewIndexReturns(r) ==
  /\ pc[r] = "Building"
  /\ \E built \in BOOLEAN :
       IF built
         THEN /\ store' = [store EXCEPT !.builds[r] = @ + 1, !.made = @ + 1,
                                        !.indices[call[r].input.dataset] = store.made + 1]
              /\ CacheCallEnds(r, FALSE, store.made + 1)
         ELSE /\ CacheCallEnds(r, TRUE, 0)
              /\ UNCHANGED store
  /\ UNCHANGED <<query, decompReply, decomposition, submitted, tasks, subResults,
                 aggReply, outcome, response, caught, now, oracleCalls>>

CacheNext ==
  \E r \in Requests :
    \/ GetOrCreateIndex(r)
    \/ LoadReturns(r)
    \/ CachedDeleteCollectionReturns(r)
    \/ CreateNewIndexReturns(r)

CacheSpec == CacheInit /\ [][CacheNext]_vars

(***************************************************************************)
(* Properties                                                              *)
(***************************************************************************)
Stages == {"Received", "Decomposing", "Executing", "Aggregating", "Completed"}

Rank(stage) ==
  CASE stage = "Received" -> 1
    [] stage = "Decomposing" -> 2
    [] stage = "Executing" -> 3
    [] stage = "Aggregating" -> 4
    [] stage = "Completed" -> 5
    [] OTHER -> 0

\* processQuery returned from its try block.
CompletedNormally == pc = "Completed" /\ ~caught

\* executeSubQueries has returned its results to its caller.
ExecutorHasReturned == pc \in {"Aggregating", "Returned"} \/ CompletedNormally

\* The tasks whose handler threw.
ThrowingTasks == {i \in 1..Len(tasks) : tasks[i].handler.threw}

FailedResults(rs) == {i \in 1..Len(rs) : ~rs[i].success}

\* The sum of the durations of rs[1..n].
RECURSIVE DurationSum(_, _)
DurationSum(rs, n) == IF n = 0 THEN 0 ELSE DurationSum(rs, n - 1) + rs[n].executionTime

\* C1: processQuery never ends with an exception; once it has ended it has
\* returned a response, and when an exception reached its boundary that
\* response has no sub-queries, no sub-results, an all-zero summary and a
\* non-empty final text that states the failure.
C1_NeverThrows ==
  /\ outcome # "threw"
  /\ pc = "Completed" => outcome = "returned" /\ response # NoResponse
  /\ (pc = "Completed" /\ caught) =>
       /\ response.decomposition.subQueries = << >>
       /\ response.subResults = << >>
       /\ response.executionSummary.totalSubQueries = 0
       /\ response.executionSummary.successfulQueries = 0
       /\ response.executionSummary.failedQueries = 0
       /\ response.executionSummary.totalExecutionTime = 0
       /\ response.response # ""
       /\ response.response \in {"query processing failed: " \o m : m \in UnexpectedErrors}

C1_Witness == pc = "Completed" /\ caught /\ outcome = "returned"

\* C2: when exactly one task's handler threw, executeSubQueries returns one
\* result per task, exactly one of them failed (that task's), every other
\* one succeeded with the output its own handler returned, and every task
\* ran to completion.
C2_FailureIsolation ==
  (ExecutorHasReturned /\ Cardinality(ThrowingTasks) = 1) =>
    /\ Len(subResults) = Len(tasks)
    /\ Cardinality(FailedResults(subResults)) = 1
    /\ \A i \in 1..Len(tasks) :
         /\ tasks[i].settled
         /\ tasks[i].handler.cause # "pending"
         /\ subResults[i].id = tasks[i].subQuery.id
         /\ i \in ThrowingTasks => ~subResults[i].success
         /\ i \notin ThrowingTasks =>
              subResults[i].success /\ subResults[i].response = tasks[i].handler.value

C2_Witness ==
  /\ pc = "Returned"
  /\ Len(tasks) = 2
  /\ Cardinality(ThrowingTasks) = 1
  /\ \E i \in 1..2 : subResults[i].success /\ subResults[i].response = "PPI: N/A"

\* C3 as claimed: the i-th result carries the id of the i-th sub-query of
\* the list executeSubQueries was given, whatever its priorities.
C3_InputOrder ==
  ExecutorHasReturned =>
    /\ Len(subResults) = Len(submitted)
    /\ \A i \in 1..Len(submitted) : subResults[i].id = submitted[i].id

\* The position in the submitted list of the sub-query with an id.
PositionOf(id) == CHOOSE k \in 1..Len(submitted) : submitted[k].id = id

\* C3 as amended: executeSubQueries returns one result per sub-query, in
\* the order of the input sorted by ascending priority with ties in input
\* order, whatever the order in which the tasks finished.
C3_PriorityOrder ==
  ExecutorHasReturned =>
    /\ Len(subResults) = Len(submitted)
    /\ {subResults[i].id : i \in 1..Len(subResults)} = {submitted[i].id : i \in 1..Len(submitted)}
    /\ \A i, j \in 1..Len(subResults) :
         i < j =>
           LET a == PositionOf(subResults[i].id)
               b == PositionOf(subResults[j].id)
           IN \/ submitted[a].priority < submitted[b].priority
              \/ submitted[a].priority = submitted[b].priority /\ a < b

C3_Witness ==
  /\ pc = "Returned"
  /\ Len(submitted) = 2
  /\ submitted[1].priority > submitted[2].priority
  /\ subResults[1].id = submitted[2].id
  /\ subResults[1].executionTime > subResults[2].executionTime

\* C4: while aggregateResults runs and after it, every sub-query of the
\* request has a task that settled with a result, and no aggregation
\* oracle reply exists before that.
C4_FanInBarrier ==
  /\ (pc = "Aggregating" \/ CompletedNormally) =>
       /\ Len(tasks) = Len(decomposition.subQueries)
       /\ Len(subResults) = Len(tasks)
       /\ \A i \in 1..Len(tasks) :
            tasks[i].settled /\ tasks[i].result # NoResult /\ subResults[i] = tasks[i].result
  /\ aggReply # NoAggregationReply => CompletedNormally

C4_Witness ==
  /\ pc = "Aggregating"
  /\ Len(tasks) = 2
  /\ tasks[1].result.success
  /\ ~tasks[2].result.success

\* C5 as claimed: every change of stage goes to the next stage of
\* Received, Decomposing, Executing, Aggregating, Completed.
C5_EveryStageInOrder == [][pc' # pc => Rank(pc') = Rank(pc) + 1]_vars

\* C5 as amended: the stage only moves forward, to the next stage or, when
\* an exception reaches processQuery's catch, straight to Completed; there
\* is no other stage, nothing happens after Completed, and Completed is
\* eventually reached.
C5_StageOrder ==
  /\ [](pc \in Stages)
  /\ [][pc' # pc =>
          \/ Rank(pc') = Rank(pc) + 1 /\ caught' = caught
          \/ pc \in {"Decomposing", "Executing", "Aggregating"} /\ pc' = "Completed" /\ caught']_vars
  /\ [][pc # "Completed"]_vars
  /\ <>(pc = "Completed")

C5_Witness == CompletedNormally /\ Len(subResults) = 2 /\ aggReply.kind = "object"

\* C6: in every response the summary's total is the number of sub-results,
\* its success and failure counts are the numbers of succeeded and failed
\* sub-results and add up to the total, and its total time is the sum of
\* the sub-results' times.
C6_SummaryInvariant ==
  pc = "Completed" =>
    LET rs == response.subResults
        sm == response.executionSummary
    IN /\ sm.totalSubQueries = Len(rs)
       /\ sm.successfulQueries + sm.failedQueries = sm.totalSubQueries
       /\ sm.failedQueries = Cardinality(FailedResults(rs))
       /\ sm.totalExecutionTime = DurationSum(rs, Len(rs))

C6_Witness ==
  /\ CompletedNormally
  /\ Len(response.subResults) = 2
  /\ response.executionSummary.failedQueries = 1
  /\ response.executionSummary.totalExecutionTime >= 1
  /\ aggReply.kind = "call_failed"

\* The decomposition oracle's call failed or its output could not be used.
DecompositionOracleFailed ==
  \/ decompReply.kind \in {"call_failed", "no_json", "invalid_json", "not_an_array"}
  \/ decompReply.kind = "object" /\ decompReply.hasMultipleIntents = "undefined"

\* C7: when the decomposition oracle fails or its output is unparsable,
\* decomposeQuery returns one knowledge sub-query holding the original
\* text, with confidence 0.5, and reports a single intent.
C7_DecomposeFallback ==
  DecompositionOracleFailed =>
    /\ Len(decomposition.subQueries) = 1
    /\ decomposition.subQueries[1].type = "knowledge_query"
    /\ decomposition.subQueries[1].query = query
    /\ decomposition.subQueries[1].confidence = 50
    /\ decomposition.hasMultipleIntents = FALSE
    /\ decomposition.originalQuery = query
    /\ submitted = decomposition.subQueries

C7_Witness ==
  /\ pc = "Executing"
  /\ decompReply.kind = "object"
  /\ decompReply.hasMultipleIntents = "undefined"
  /\ Len(decompReply.subQueries) = 1

\* The aggregation oracle's call failed or its output holds no response.
AggregationOracleFailed ==
  \/ aggReply.kind \in {"call_failed", "no_json"}
  \/ aggReply.kind = "object" /\ aggReply.response = ""

FallbackReasonings ==
  {"LLM aggregation failed, simple join used: " \o k : k \in {"call_failed", "no_json", "object"}}

\* C8: when the aggregation oracle fails on more than one sub-result,
\* aggregateResults returns the non-empty text of the fallback join and a
\* reasoning that records the fallback.
C8_AggregateFallback ==
  (CompletedNormally /\ Len(subResults) > 1 /\ AggregationOracleFailed) =>
    /\ response.response # ""
    /\ response.response = SimpleFallbackAggregation(subResults)
    /\ response.aggregationReasoning \in FallbackReasonings

C8_Witness ==
  /\ CompletedNormally
  /\ Len(subResults) = 2
  /\ aggReply.kind = "object"
  /\ aggReply.response = ""
  /\ \A i \in 1..2 : subResults[i].success /\ subResults[i].response = ""

\* C9: the final text of every response is non-empty.
C9_AlwaysAnswers == pc = "Completed" => response.response # ""

\* C10 as claimed: a sub-task that failed for a reason of the taxonomy has
\* a failed result with a failure reason and is counted as failed.
C10_TaxonomyFailuresVisible ==
  ExecutorHasReturned =>
    \A i \in 1..Len(tasks) :
      tasks[i].handler.cause \in {"InsufficientOperands", "RetrievalFailed", "LookupFailed"} =>
        /\ ~subResults[i].success
        /\ subResults[i].error # Undefined
        /\ CompletedNormally =>
             response.executionSummary.failedQueries >= Cardinality({j \in 1..Len(tasks) :
                tasks[j].handler.cause \in {"InsufficientOperands", "RetrievalFailed", "LookupFailed"}})

\* C10 as amended: a result is failed, with the thrown message as its
\* failure reason, exactly when its handler threw (a calculation without
\* two numbers, an unsupported type, a text that is no string), and these
\* are the results counted as failed; a retrieval or weather lookup error
\* is returned as the text of a successful result and counted as
\* succeeded.
C10_ThrownFailuresVisible ==
  ExecutorHasReturned =>
    /\ \A i \in 1..Len(tasks) :
         /\ tasks[i].handler.threw <=> ~subResults[i].success
         /\ tasks[i].handler.threw =>
              subResults[i].error = tasks[i].handler.value /\ subResults[i].response = ""
         /\ tasks[i].handler.cause = "InsufficientOperands" => tasks[i].handler.threw
         /\ tasks[i].handler.cause \in {"RetrievalFailed", "LookupFailed"} =>
              /\ subResults[i].success
              /\ subResults[i].error = Undefined
              /\ subResults[i].response = tasks[i].handler.value
              /\ subResults[i].response # ""
    /\ CompletedNormally =>
         /\ response.executionSummary.failedQueries = Cardinality(ThrowingTasks)
         /\ response.executionSummary.successfulQueries = Len(tasks) - Cardinality(ThrowingTasks)

C10_Witness ==
  /\ CompletedNormally
  /\ Len(tasks) = 2
  /\ tasks[1].handler.cause = "InsufficientOperands"
  /\ tasks[2].handler.cause = "RetrievalFailed"
  /\ response.executionSummary.failedQueries = 1

\* The results executeSubQuery has built so far: those of the settled tasks
\* and those executeSubQueries returned.
ProducedResults ==
  {tasks[i].result : i \in {j \in 1..Len(tasks) : tasks[j].settled}}
    \cup {subResults[i] : i \in 1..Len(subResults)}

\* C11: every result of the executor has a failure reason exactly when it
\* did not succeed, an empty output when it did not succeed, and a recorded
\* non-negative duration whether it succeeded or not.
C11_SubResultShape ==
  \A r \in ProducedResults :
    /\ (r.error # Undefined) <=> ~r.success
    /\ ~r.success => r.response = ""
    /\ r.executionTime \in 0..MaxTime

C11_Witness ==
  /\ pc = "Returned"
  /\ Len(subResults) = 2
  /\ ~subResults[1].success /\ subResults[1].executionTime = 1
  /\ subResults[2].success /\ subResults[2].executionTime = 0

\* C12: in every response the summary is the aggregation's summary, its
\* total is the number of sub-results and the number of sub-queries of the
\* decomposition, and the i-th sub-result carries the id, type and text of
\* the i-th sub-query of the decomposition.
C12_Provenance ==
  pc = "Completed" =>
    LET d  == response.decomposition.subQueries
        rs == response.subResults
    IN /\ response.executionSummary = response.aggregation.executionSummary
       /\ response.aggregation.subResults = rs
       /\ response.executionSummary.totalSubQueries = Len(rs)
       /\ Len(rs) = Len(d)
       /\ \A i \in 1..Len(d) :
            /\ rs[i].id = d[i].id
            /\ rs[i].type = d[i].type
            /\ rs[i].query = d[i].query

\* The oracle listed two sub-queries with the later one first in priority,
\* the second task finished first and one task failed.
C12_Witness ==
  /\ CompletedNormally
  /\ Len(decompReply.subQueries) = 2
  /\ decompReply.subQueries[1].priority > decompReply.subQueries[2].priority
  /\ Len(response.subResults) = 2
  /\ response.subResults[1].type # response.subResults[2].type
  /\ response.subResults[1].executionTime > response.subResults[2].executionTime
  /\ ~response.subResults[2].success

\* decomposeQuery has returned its decomposition to processQuery.
DecomposeHasReturned == pc \in {"Executing", "Aggregating"} \/ CompletedNormally

\* C13: a decomposition reports several intents exactly when it holds more
\* than one sub-query, whatever the oracle reported.
C13_CompositeIffSeveral ==
  DecomposeHasReturned =>
    (decomposition.hasMultipleIntents <=> Len(decomposition.subQueries) > 1)

\* C14: within one processQuery call the oracle is called at most once for
\* the decomposition, at most once for each knowledge sub-query's
\* classification and at most once for the aggregation; a call whose reply
\* failed or could not be used is not followed by another one.
C14_AtMostOneAttempt ==
  /\ oracleCalls.decompose <= 1
  /\ oracleCalls.aggregate <= 1
  /\ \A i \in 1..Len(oracleCalls.classify) : oracleCalls.classify[i] <= 1
  /\ DecomposeHasReturned =>
       /\ oracleCalls.decompose = 1
       /\ Len(oracleCalls.classify) = Len(tasks)
       /\ \A i \in 1..Len(tasks) :
            tasks[i].subQuery.type # "knowledge_query" => oracleCalls.classify[i] = 0
  /\ (CompletedNormally /\ AggregationOracleFailed) => oracleCalls.aggregate = 1
  /\ (CompletedNormally /\ Len(subResults) = 1) => oracleCalls.aggregate = 0

C14_Witness ==
  /\ CompletedNormally
  /\ decompReply.kind = "object"
  /\ Len(tasks) = 2
  /\ oracleCalls.decompose = 1
  /\ oracleCalls.classify = <<1, 0>>
  /\ aggReply.kind = "call_failed"
  /\ oracleCalls.aggregate = 1

\* A sub-result without its duration.
WithoutDuration(r) == [r EXCEPT !.executionTime = 0]

\* C15: with two calls interleaved, the response of each call that
\* returned from its try block is the one the call produces on its own
\* from its query and the replies to its own external calls: its
\* decomposition from its decomposition reply, its sub-results (durations
\* apart) from its tasks' handlers, its final text and its summary from
\* those sub-results and its aggregation reply.
C15_RequestsIndependent ==
  \A r \in Requests :
    (pc[r] = "Completed" /\ ~caught[r]) =>
      LET d  == DecomposeQuery(decompReply[r], query[r], 0)
          rs == response[r].subResults
      IN /\ response[r].query = query[r]
         /\ response[r].decomposition = d
         /\ Len(tasks[r]) = Len(d.subQueries)
         /\ Len(rs) = Len(d.subQueries)
         /\ \A i \in 1..Len(rs) :
              /\ tasks[r][i].subQuery = d.subQueries[i]
              /\ tasks[r][i].handler \in
                   {Dispatch(d.subQueries[i], reply) : reply \in ServiceReplies(d.subQueries[i])}
              /\ WithoutDuration(rs[i]) = SubQueryResult(d.subQueries[i], tasks[r][i].handler, 0, 0)
         /\ response[r].response = AggregateResults(query[r], rs, aggReply[r]).finalResponse
         /\ response[r].executionSummary = CalculateExecutionSummary(rs)

\* Request A went through all its stages while request B was waiting for
\* its second task, and their decompositions differ.
C15_Witness ==
  /\ pc["A"] = "Completed" /\ ~caught["A"]
  /\ pc["B"] = "Executing"
  /\ Len(tasks["B"]) = 2 /\ tasks["B"][1].settled /\ ~tasks["B"][2].settled
  /\ Len(response["A"].subResults) = 2
  /\ response["A"].decomposition.subQueries # decomposition["B"].subQueries
  /\ decompReply["B"].kind = "object"

\* The external call of some task has not returned.
SomeTaskPending == \E i \in 1..Len(tasks) : ~tasks[i].settled

\* C16 as claimed: while the call of one sub-query's task has not
\* returned, executeSubQueries does not return and processQuery does not
\* reach Completed.
C16_NeverCompletes ==
  [][SomeTaskPending => (~ExecutorHasReturned' /\ pc' # "Completed")]_vars

\* C16 as amended: while the call of one sub-query's task has not
\* returned, whatever its siblings did, executeSubQueries does not return
\* and processQuery does not complete with an aggregated response; it
\* reaches Completed only when an exception reaches its catch block.
C16_NoTimeout ==
  [][SomeTaskPending =>
       /\ ~ExecutorHasReturned'
       /\ pc' \in {"Executing", "Completed"}
       /\ pc' = "Completed" => (caught' /\ response'.subResults = << >>)]_vars

\* One task is still waiting for its service after its sibling settled.
C16_Witness ==
  /\ pc = "Executing"
  /\ Len(tasks) = 2
  /\ tasks[1].settled
  /\ ~tasks[2].settled
  /\ tasks[2].subQuery.type = "knowledge_query"

\* The sum of the confidences of d[1..n].
RECURSIVE ConfidenceTotal(_, _)
ConfidenceTotal(d, n) == IF n = 0 THEN 0 ELSE ConfidenceTotal(d, n - 1) + d[n].confidence

\* C18: in every response the overall confidence is the arithmetic mean of
\* the confidences of the decomposition's sub-queries, and 0 when the
\* decomposition has none, as in the response of the catch block.
C18_MeanConfidence ==
  pc = "Completed" =>
    LET d == response.decomposition.subQueries
    IN /\ response.confidence * Len(d) = ConfidenceTotal(d, Len(d))
       /\ Len(d) = 0 => response.confidence = 0
       /\ caught => Len(d) = 0

C18_Witness ==
  /\ CompletedNormally
  /\ Len(response.decomposition.subQueries) = 2
  /\ response.decomposition.subQueries[1].confidence = 20
  /\ response.decomposition.subQueries[2].confidence = 80
  /\ response.confidence = 50

\* The oracle's text holds a JSON object that JSON.parse accepts.
SyntacticallyValid(reply) == reply.kind \in {"object", "not_an_array"}

\* C17: a syntactically valid oracle output parsed at two times by the
\* decomposer's, the classifier's or the aggregator's parser gives the same
\* result both times, ids of sub-queries without an id included.
C17_IdempotentParsing ==
  (/\ call.returned
   /\ call.function \in {"parseDecompositionResult", "parseClassificationResult",
                         "parseAggregationResult"}
   /\ SyntacticallyValid(call.input.reply)) =>
     call.output[1] = call.output[2]

\* The oracle's output for the classifier cannot be used: no JSON object
\* that parses, a dataset or a reasoning missing, a dataset that is no
\* key of DATASET_CONFIGS, or a confidence outside [0, 1].
InvalidClassifierOutput(reply) ==
  \/ reply.kind \in {"no_json", "invalid_json"}
  \/ /\ reply.kind = "object"
     /\ \/ reply.dataset \notin DatasetKeys
        \/ reply.reasoning = ""
        \/ reply.confidence < 0
        \/ reply.confidence > 100

\* C19: classify throws whenever the oracle call fails or the oracle's
\* output cannot be used, and returns no default dataset in these cases.
C19_ClassifierFailsTowardsCaller ==
  (/\ call.returned
   /\ call.function = "classify"
   /\ (call.input.reply.kind = "call_failed" \/ InvalidClassifierOutput(call.input.reply))) =>
     call.output.threw

\* C20: without a valid hint, with a keyword score not above 0.6 and a
\* classification that failed (the call, or an output that cannot be
\* used), routeQuery selects the default dataset with confidence 0.4 and
\* issues the retrieval against it.
C20_DefaultAfterOracleFailure ==
  (/\ call.returned
   /\ call.function = "routeQuery"
   /\ call.input.suggestedDataset \notin DatasetKeys
   /\ AsksClassifier(call.input.query)
   /\ \/ call.input.classifierReply.kind = "call_failed"
      \/ InvalidClassifierOutput(call.input.classifierReply)) =>
     /\ call.output.selection.dataset = "price_index_statistics"
     /\ call.output.selection.confidence = 40
     /\ call.output.retrievedFrom = "price_index_statistics"

\* The routeQuery call has returned or thrown.
RouteQueryDone == call.returned /\ call.function = "routeQuery"

\* C21: a hint that is a key of DATASET_CONFIGS is selected with confidence
\* 0.9, and neither the keyword scores nor the classifier are evaluated; a
\* hint that is absent or no key of DATASET_CONFIGS is ignored and the
\* selection is the one of the keyword and classifier steps.
C21_HintLadder ==
  RouteQueryDone =>
    /\ call.input.suggestedDataset \in DatasetKeys =>
         /\ call.output.selection.dataset = call.input.suggestedDataset
         /\ call.output.selection.confidence = 90
         /\ call.output.retrievedFrom = call.input.suggestedDataset
         /\ ~call.output.scored
         /\ call.output.classifierCalls = 0
    /\ call.input.suggestedDataset \notin DatasetKeys =>
         /\ call.output.scored
         /\ call.output.selection.dataset \in DatasetKeys
         /\ call.output.selection =
              SelectBestDataset(call.input.query, call.input.classifierReply)

\* The keyword score of a text for a dataset.
DatasetScore(text, dataset) ==
  IF dataset = "machine_learning" THEN CalculateKeywordScore(MlKeywordMatches(text))
  ELSE CalculateKeywordScore(PriceKeywordMatches(text))

C23_RetrievalErrorIsText ==
  (RouteQueryDone /\ call.input.knowledgeReply.kind = "error") =>
    /\ ~call.output.threw
    /\ call.output.response = "query failed: " \o call.input.knowledgeReply.text
    /\ call.output.retrievedFrom = call.output.selection.dataset
    /\ call.output.selectedDataset = DatasetDescription(call.output.selection.dataset)
    /\ call.output.routingReason = call.output.selection.reasoning
    /\ call.output.confidence = call.output.selection.confidence

\* The retrieval failed after the classifier's call had failed too.
C23_Witness ==
  /\ RouteQueryDone
  /\ call.input.knowledgeReply.kind = "error"
  /\ call.input.suggestedDataset = ""
  /\ call.input.classifierReply.kind = "call_failed"
  /\ call.output.response = "query failed: connection refused"
  /\ call.output.selectedDataset = "price index statistics"
  /\ call.output.confidence = 40

\* C24: when the aggregation oracle fails and no sub-result succeeded, the
\* final text is exactly the fixed message that all queries failed.
C24_AllFailedMessage ==
  (/\ CompletedNormally
   /\ Len(subResults) > 1
   /\ AggregationOracleFailed
   /\ \A i \in 1..Len(subResults) : ~subResults[i].success) =>
     response.response = "all queries failed"

\* C25: with exactly one sub-result aggregateResults asks the oracle
\* nothing, and the final text is the handler's output when it succeeded
\* and a failure text ending in the handler's message when it failed; the
\* whole request then costs the decomposition call and, for a knowledge
\* query, at most one classification call.
C25_SingleResultPassThrough ==
  /\ (pc = "Aggregating" /\ Len(subResults) = 1) => oracleCalls.aggregate = 0
  /\ (CompletedNormally /\ Len(subResults) = 1) =>
       /\ oracleCalls.aggregate = 0
       /\ aggReply = NoAggregationReply
       /\ oracleCalls.decompose = 1
       /\ Len(oracleCalls.classify) = 1
       /\ oracleCalls.classify[1] <= 1
       /\ tasks[1].subQuery.type # "knowledge_query" => oracleCalls.classify[1] = 0
       /\ response.subResults = subResults
       /\ ~tasks[1].handler.threw =>
            subResults[1].success /\ response.response = tasks[1].handler.value
       /\ tasks[1].handler.threw =>
            /\ ~subResults[1].success
            /\ response.response = "query failed: " \o tasks[1].handler.value

\* The single sub-query was a calculation without two numbers.
C25_Witness ==
  /\ CompletedNormally
  /\ decompReply.kind = "object"
  /\ Len(subResults) = 1
  /\ subResults[1].type = "math_calculation"
  /\ response.response = "query failed: math calculation failed: not enough numbers in the query"
  /\ oracleCalls = [decompose |-> 1, classify |-> <<0>>, aggregate |-> 0]

\* parseDecompositionResult has returned.
DecompositionParsed == call.returned /\ call.function = "parseDecompositionResult"

\* The oracle's text passed the checks of parseDecompositionResult.
ReplyAccepted(reply) == reply.kind = "object" /\ reply.hasMultipleIntents # "undefined"

\* The position in the oracle's list of the entry a returned sub-query was
\* made from (its default reasoning names it).
Origin(subQuery) ==
  CHOOSE i \in 1..MaxSubQueries : subQuery.reasoning = "sub-query " \o ToString(i)

\* C26: the ids of the sub-queries of a decomposition are pairwise
\* distinct, whether the oracle supplied them or not.
C26_DistinctIds ==
  DecompositionParsed =>
    LET d == call.output[1].subQueries
    IN \A i, j \in 1..Len(d) : i # j => d[i].id # d[j].id

\* The confidence a value clamped into [0, 1] becomes.
Clamped(confidence) ==
  IF confidence < 0 THEN 0 ELSE IF confidence > 100 THEN 100 ELSE confidence

\* C27: every sub-query of a decomposition has a confidence in [0, 1], and
\* a confidence the oracle supplied is returned clamped: below 0 as 0,
\* above 1 as 1, and from 0 to 1, both included, unchanged.
C27_ConfidenceClamped ==
  DecompositionParsed =>
    LET d == call.output[1].subQueries
        emitted == call.input.reply.subQueries
    IN /\ \A j \in 1..Len(d) : d[j].confidence \in 0..100
       /\ ReplyAccepted(call.input.reply) =>
            \A j \in 1..Len(d) :
              emitted[Origin(d[j])].confidenceGiven =>
                d[j].confidence = Clamped(emitted[Origin(d[j])].confidence)

\* C28: the sub-queries of a decomposition are the oracle's entries in
\* non-decreasing order of priority, and two of equal priority are in the
\* order in which the oracle emitted them.
C28_StableSort ==
  DecompositionParsed =>
    LET d == call.output[1].subQueries
    IN /\ \A j, k \in 1..Len(d) : j < k => d[j].priority <= d[k].priority
       /\ ReplyAccepted(call.input.reply) =>
            /\ Len(d) = Len(call.input.reply.subQueries)
            /\ {Origin(d[j]) : j \in 1..Len(d)} = 1..Len(d)
            /\ \A j, k \in 1..Len(d) :
                 (j < k /\ d[j].priority = d[k].priority) => Origin(d[j]) < Origin(d[k])

\* Two entries end up with the same priority (the second one by default)
\* and differ otherwise; the first emitted comes first.
C28_Witness ==
  /\ DecompositionParsed
  /\ ReplyAccepted(call.input.reply)
  /\ Len(call.output[1].subQueries) = 2
  /\ call.input.reply.subQueries[1].priority = 2
  /\ call.input.reply.subQueries[2].priority = 0
  /\ call.output[1].subQueries[1].priority = call.output[1].subQueries[2].priority
  /\ call.output[1].subQueries[1].id = "q1"
  /\ call.output[1].subQueries[2].id # "q1"
  /\ Origin(call.output[1].subQueries[1]) = 1

\* C29: when an entry of the oracle's list has no text or no type, the
\* whole output counts as failed and the single fallback sub-query is
\* returned; no default is put in the place of the missing field.
C29_NoSilentCoercion ==
  (/\ DecompositionParsed
   /\ \E i \in 1..Len(call.input.reply.subQueries) :
        \/ call.input.reply.subQueries[i].query = ""
        \/ call.input.reply.subQueries[i].type = "") =>
     /\ Len(call.output[1].subQueries) = 1
     /\ call.output[1].subQueries[1].id = "fallback-1"
     /\ call.output[1].hasMultipleIntents = FALSE

\* C30: every sub-query of a decomposition, and so every sub-query the
\* executor starts a task for, has one of the three supported types.
C30_ClosedKinds ==
  DecomposeHasReturned =>
    /\ \A i \in 1..Len(decomposition.subQueries) :
         decomposition.subQueries[i].type \in QueryTypes
    /\ \A i \in 1..Len(tasks) : tasks[i].subQuery.type \in QueryTypes

\* The settled tasks that are calculations on a text with fewer than two
\* numbers.
TasksShortOfOperands ==
  {i \in 1..Len(tasks) :
     /\ tasks[i].settled
     /\ tasks[i].subQuery.type = "math_calculation"
     /\ Len(NumericTokens(tasks[i].subQuery.query)) < 2}

\* C31: a calculation on a text with fewer than two numbers has a failed
\* result with an empty output and the failure reason of missing operands,
\* never a successful one; the tasks beside it have the results of their
\* own handlers.
C31_InsufficientOperands ==
  /\ \A i \in TasksShortOfOperands :
       /\ ~tasks[i].result.success
       /\ tasks[i].result.response = ""
       /\ tasks[i].result.error = "math calculation failed: not enough numbers in the query"
       /\ tasks[i].handler.cause = "InsufficientOperands"
       /\ ExecutorHasReturned => subResults[i] = tasks[i].result
  /\ (ExecutorHasReturned /\ TasksShortOfOperands # {}) =>
       /\ Len(subResults) = Len(tasks)
       /\ \A j \in 1..Len(tasks) :
            j \notin TasksShortOfOperands =>
              /\ subResults[j].success <=> ~tasks[j].handler.threw
              /\ subResults[j].success => subResults[j].response = tasks[j].handler.value

\* A calculation on a text with one number failed beside a calculation
\* that succeeded.
C31_Witness ==
  /\ pc = "Returned"
  /\ Len(tasks) = 2
  /\ tasks[1].subQuery.query = "compute 12"
  /\ 1 \in TasksShortOfOperands
  /\ subResults[2].success
  /\ subResults[2].response = "result: 12 x 8 = 96"

\* handleMathCalculation has returned or thrown.
MathHandled == call.returned /\ call.function = "handleMathCalculation"

\* C32: with at least two numbers in the text the operands are the first
\* two in order of appearance; they are multiplied when the text has a
\* multiplication sign (with or without an addition sign), added when it
\* has addition signs only, and multiplied when it has neither; the
\* reported result is their product or their sum.
C32_OperatorChoice ==
  (MathHandled /\ Len(NumericTokens(call.input.query)) >= 2) =>
    LET a == NumericTokens(call.input.query)[1]
        b == NumericTokens(call.input.query)[2]
        times == HasMultiplicationMarker(call.input.query)
        plus == HasAdditionMarker(call.input.query)
    IN /\ ~call.output.threw
       /\ times =>
            call.output.value =
              "result: " \o ToString(a) \o " x " \o ToString(b) \o " = " \o ToString(a * b)
       /\ (plus /\ ~times) =>
            call.output.value =
              "result: " \o ToString(a) \o " + " \o ToString(b) \o " = " \o ToString(a + b)
       /\ (~plus /\ ~times) =>
            call.output.value =
              "result: " \o ToString(a) \o " x " \o ToString(b) \o " = " \o ToString(a * b)

\* Both signs and three numbers: the first two are multiplied.
C32_Witness ==
  /\ MathHandled
  /\ call.input.query = "3 + 4 * 5"
  /\ call.output.value = "result: 3 x 4 = 12"

C34_InputsUnchanged ==
  /\ call.function = "executeSubQueries" => submitted = call.input.subQueries
  /\ pc = "Aggregated" =>
       /\ subResults = CollectResults(tasks)
       /\ call.output.subResults = subResults

\* A list given out of priority order, with one failed and one successful
\* result, has been executed and aggregated.
C34_Witness ==
  /\ pc = "Aggregated"
  /\ Len(submitted) = 2
  /\ submitted[1].priority > submitted[2].priority
  /\ tasks[1].subQuery = submitted[2]
  /\ subResults[1].success
  /\ ~subResults[2].success

\* C36: every decomposition decomposeQuery returns holds at least one
\* sub-query, also when the oracle's list is present and empty.
C36_AtLeastOneSubQuery ==
  DecomposeHasReturned => Len(decomposition.subQueries) >= 1

\* C37: whatever the hint, the text and the oracle's output, the dataset
\* routeQuery selects is one of the registered datasets and the selection's
\* confidence lies between 0 and 1.
C37_RegisteredAndBounded ==
  RouteQueryDone =>
    /\ call.output.selection.dataset \in DatasetKeys
    /\ call.output.selection.confidence \in 0..100

\* checkCollectionExists has been called directly and has returned.
CheckDone == call.returned /\ call.function = "checkCollectionExists"

\* C35: checkCollectionExists never throws; whatever the name and whatever
\* fails in the client (its construction, getCollectionInfo, getCollections)
\* it returns a boolean, and true only when getCollectionInfo answered or
\* the listed collections hold the name.
C35_CheckNeverThrows ==
  CheckDone =>
    /\ ~call.output.threw
    /\ call.output.value \in BOOLEAN
    /\ call.output.value =>
         /\ store.client.constructed
         /\ \/ store.client.info = "ok"
            \/ /\ store.client.list.kind \in {"objects", "strings"}
               /\ call.input.collectionName \in store.client.list.names

\* getCollectionInfo failed and the list of getCollections holds the name:
\* the answer is true.
C35_Witness ==
  /\ CheckDone
  /\ store.client.constructed
  /\ store.client.info = "error"
  /\ call.input.collectionName \in store.client.list.names
  /\ call.output.value

\* The waits connectToIndexWithRetry makes before n retries: 1 s, 2 s, ...
WaitsBefore(n) == [i \in 1..n |-> 1000 * i]

CreationStarted ==
  \/ pc \in {"Deleting", "Building"}
  \/ store.deletions > 0
  \/ store.builds > 0
  \/ call.returned /\ call.output.threw

\* C39: getIndex deletes or creates nothing when a connection attempt
\* succeeds; it deletes and rebuilds the collection only after every
\* attempt failed and checkCollectionExists answered true, and creates an
\* index without deleting only after every attempt failed and
\* checkCollectionExists answered false.
C39_RebuildOnlyAfterRetries ==
  call.function = "getIndex" =>
    /\ store.connected => store.deletions = 0 /\ store.builds = 0 /\ ~CreationStarted
    /\ CreationStarted =>
         /\ ~store.connected
         /\ store.attempts = DefaultMaxRetries
         /\ store.checked
    /\ store.deletions > 0 => store.exists
    /\ store.deletions <= 1
    /\ (pc = "Deleting" \/ store.deletions > 0) <=> (CreationStarted /\ store.exists)
    /\ (store.builds > 0 /\ store.deletions = 0) => ~store.exists

\* A collection that exists was deleted and rebuilt after three failures.
C39_Witness ==
  /\ call.function = "getIndex"
  /\ call.returned
  /\ call.output.value = "built index"
  /\ store.attempts = 3
  /\ store.exists
  /\ store.deletions = 1
  /\ store.builds = 1

\* The calls that went to the vector store.
Contacting == {r \in Requests : store.loads[r] + store.deletions[r] + store.builds[r] > 0}

\* C40: when two getOrCreateIndex calls for one dataset overlap while
\* nothing is cached for it, at most one of them loads or creates the
\* index, the collection is deleted at most once, and both return the same
\* index; a call that finds the index cached returns it without going to
\* the vector store.
C40_SingleLoadWhenOverlapping ==
  /\ store.overlapped =>
       /\ Cardinality(Contacting) <= 1
       /\ store.deletions["A"] + store.deletions["B"] <= 1
       /\ (\A r \in Requests : call[r].returned /\ ~call[r].output.threw) =>
            call["A"].output.value = call["B"].output.value
  /\ \A r \in Requests :
       store.hit[r] =>
         /\ r \notin Contacting
         /\ call[r].returned
         /\ call[r].output.value = store.indices[call[r].input.dataset]

====
